---- MODULE Spec2Model ----
(***************************************************************************)
(* A state-machine model of the DFPlayer serial driver                      *)
(* (src/src/DFPlayer.h, src/src/DFPlayer.cpp).                              *)
(*                                                                         *)
(* The session object holds _threshold, _ack, _moduleType and the shared   *)
(* TX/RX buffer _dataBuffer.  Every public method is one action.  The       *)
(* serial stream is modelled by the sequence io of the calls the method    *)
(* made on it (write, delay, flush, setTimeout, readBytes), by the bytes    *)
(* rxFifo it holds received and unread, and by the bytes that arrive        *)
(* while a method runs.                                                    *)
(*                                                                         *)
(* A C array index i is the sequence index i + 1: B(buf, i) is buf[i].     *)
(***************************************************************************)
EXTENDS Integers, Sequences, FiniteSets, TLC

VARIABLES
  begun,        \* begin() has been called: _serial points to a stream
  _threshold,   \* uint16_t _threshold
  _ack,         \* bool _ack
  _moduleType,  \* DFPLAYER_MODULE_TYPE _moduleType
  _dataBuffer,  \* uint8_t _dataBuffer[DFPLAYER_UART_FRAME_SIZE]
  lastOp,       \* name of the method that returned last
  args,         \* its arguments
  io,           \* the calls it made on the stream and on delay(), in order,
                \* with what flush() dropped, what readBytes() obtained and
                \* the bytes that arrived in between
  readOk,       \* what _readData() returned in it: "none", "true", "false"
  resp,         \* what _getResponse() returned in it (-1: not called)
  ret,          \* what the method returned (-1: void)
  calls,        \* how many calls of public methods the session has seen
  rxFifo,       \* the bytes the stream has received that nobody has read
  pc,           \* where each caller stands in the method it has called
  job,          \* the arguments and locals of that call
  wire          \* the bytes the module has still to deliver to the stream

session == <<_threshold, _ack, _moduleType>>
threads == <<pc, job, wire>>
vars == <<begun, _threshold, _ack, _moduleType, _dataBuffer,
          lastOp, args, io, readOk, resp, ret, calls, rxFifo, pc, job, wire>>

---------------------------------------------------------------------------
(* Bounds of the model *)

\* how far beyond each end of an argument's legal range the sampled
\* arguments reach (and how far the sampled data bytes reach from 0)
Reach == 1

\* how many calls of public methods a session of Spec makes
MaxCalls == 3

---------------------------------------------------------------------------
(* DFPlayer.h: UART frame values *)
DFPLAYER_UART_FRAME_SIZE == 10
DFPLAYER_UART_START_BYTE == 126
DFPLAYER_UART_VERSION == 255
DFPLAYER_UART_DATA_LEN == 6
DFPLAYER_UART_END_BYTE == 239

(* DFPlayer.h: command controls *)
DFPLAYER_PLAY_NEXT == 1
DFPLAYER_PLAY_PREV == 2
DFPLAYER_PLAY_TRACK == 3
DFPLAYER_SET_VOL_UP == 4
DFPLAYER_SET_VOL_DOWN == 5
DFPLAYER_SET_VOL == 6
DFPLAYER_SET_EQ == 7
DFPLAYER_LOOP_TRACK == 8
DFPLAYER_SET_PLAY_SRC == 9
DFPLAYER_SET_STANDBY_MODE == 10
DFPLAYER_SET_NORMAL_MODE == 11
DFPLAYER_RESET == 12
DFPLAYER_RESUME_PLAYBACK == 13
DFPLAYER_PAUSE == 14
DFPLAYER_PLAY_FOLDER == 15
DFPLAYER_SET_DAC_GAIN == 16
DFPLAYER_REPEAT_ALL == 17
DFPLAYER_PLAY_MP3_FOLDER == 18
DFPLAYER_PLAY_ADVERT_FOLDER == 19
DFPLAYER_PLAY_3000_FOLDER == 20
DFPLAYER_STOP_ADVERT_FOLDER == 21
DFPLAYER_STOP_PLAYBACK == 22
DFPLAYER_REPEAT_FOLDER == 23
DFPLAYER_RANDOM_ALL_FILES == 24
DFPLAYER_LOOP_CURRENT_TRACK == 25
DFPLAYER_SET_DAC == 26
DFPLAYER_PLAY_ADVERT_FOLDER_N == 37

(* DFPlayer.h: request command controls *)
DFPLAYER_GET_STATUS == 66
DFPLAYER_GET_VOL == 67
DFPLAYER_GET_EQ == 68
DFPLAYER_GET_PLAY_MODE == 69
DFPLAYER_GET_VERSION == 70
DFPLAYER_GET_QNT_USB_FILES == 71
DFPLAYER_GET_QNT_TF_FILES == 72
DFPLAYER_GET_QNT_FLASH_FILES == 73
DFPLAYER_GET_USB_TRACK == 75
DFPLAYER_GET_TF_TRACK == 76
DFPLAYER_GET_FLASH_TRACK == 77
DFPLAYER_GET_QNT_FOLDER_FILES == 78
DFPLAYER_GET_QNT_FOLDERS == 79

(* DFPlayer.h: codes the module returns in the 4-th RX byte *)
DFPLAYER_RETURN_CODE_OK_ACK == 65
DFPLAYER_RETURN_ERROR == 64
DFPLAYER_RETURN_CODE_DONE == 61
DFPLAYER_RETURN_CODE_READY == 63

(* DFPlayer.h: misc *)
DFPLAYER_BOOT_DELAY == 3000
DFPLAYER_CMD_DELAY == 350

(* DFPlayer.h: DFPLAYER_MODULE_TYPE *)
DFPLAYER_MINI == 0
DFPLAYER_FN_X10P == 1
DFPLAYER_HW_247A == 2
DFPLAYER_NO_CHECKSUM == 3

DFPLAYER_MODULE_TYPE ==
  {DFPLAYER_MINI, DFPLAYER_FN_X10P, DFPLAYER_HW_247A, DFPLAYER_NO_CHECKSUM}

---------------------------------------------------------------------------
(* C++ integer conversions *)

\* a conversion to uint8_t that saturates at 255
ToUint8Saturating(x) == IF x > 255 THEN 255 ELSE x % 256

\* conversion to uint8_t
ToUint8(x) == x % 256

\* conversion to uint16_t
ToUint16(x) == x % 65536

\* conversion to int16_t (two's complement, as every supported core does)
ToInt16(x) == IF (x % 65536) >= 32768 THEN (x % 65536) - 65536 ELSE x % 65536

\* bool to integer
BoolToInt(b) == IF b THEN 1 ELSE 0

\* buf[i], i a C array index
B(buf, i) == buf[i + 1]

\* buf with buf[i] = v, i a C array index
Put(buf, i, v) == [buf EXCEPT ![i + 1] = v]

\* memset(_dataBuffer, 0x00, DFPLAYER_UART_FRAME_SIZE)
Zeros == [i \in 1..DFPLAYER_UART_FRAME_SIZE |-> 0]

\* the first n elements of s
Take(s, n) == SubSeq(s, 1, n)

---------------------------------------------------------------------------
(* The stream and delay() calls a method makes, in order *)

Ev(kind, bytes, ms) == [kind |-> kind, bytes |-> bytes, ms |-> ms]

\* the events of s of one kind
EventsOf(s, kind) == SelectSeq(s, LAMBDA e : e.kind = kind)

\* the frames written to the stream
Written(s) == EventsOf(s, "write")

---------------------------------------------------------------------------
(* DFPlayer::_sendData, DFPlayer::_readData, DFPlayer::_getResponse.       *)
(* A method body is a function of s = [buf, io, rxq]: the buffer, the     *)
(* calls made so far and the unread bytes of the stream; the session      *)
(* fields are read from the variables.                                    *)

\* the six bytes the checksum covers: _dataBuffer[1] .. _dataBuffer[6]
SumFields(buf) ==
  B(buf, 1) + B(buf, 2) + B(buf, 3) + B(buf, 4) + B(buf, 5) + B(buf, 6)

\* Checksum with the acknowledgement byte _dataBuffer[4] left out of the sum
ChecksumNoAck(moduleType, buf) ==
  IF moduleType = DFPLAYER_FN_X10P
  THEN ToInt16(ToInt16(35535) - (SumFields(buf) - B(buf, 4)) + 1)
  ELSE ToInt16(ToInt16(0) - (SumFields(buf) - B(buf, 4)))

\* int16_t checksum after the first switch (_moduleType) of _sendData;
\* only evaluated for the module types that compute one
Checksum(moduleType, buf) ==
  IF moduleType = DFPLAYER_FN_X10P
  THEN ToInt16(ToInt16(35535) - SumFields(buf) + 1)
  ELSE ToInt16(ToInt16(0) - SumFields(buf))

\* FillHeader that asks for feedback whatever _ack is
FillHeaderAckOn(buf, command, dataMSB, dataLSB) ==
  <<DFPLAYER_UART_START_BYTE, DFPLAYER_UART_VERSION, DFPLAYER_UART_DATA_LEN,
    command, 1, dataMSB, dataLSB, buf[8], buf[9], buf[10]>>

\* _dataBuffer[0] .. _dataBuffer[6] as _sendData fills them
FillHeader(buf, command, dataMSB, dataLSB) ==
  <<DFPLAYER_UART_START_BYTE, DFPLAYER_UART_VERSION, DFPLAYER_UART_DATA_LEN,
    command, BoolToInt(_ack), dataMSB, dataLSB, buf[8], buf[9], buf[10]>>

\* the module types of the first case group of the second switch
HasChecksum(moduleType) ==
  moduleType \in {DFPLAYER_MINI, DFPLAYER_FN_X10P, DFPLAYER_HW_247A}

\* SendBuffer with the checksum stored low byte first
SendBufferLowFirst(buf, command, dataMSB, dataLSB) ==
  LET h == FillHeader(buf, command, dataMSB, dataLSB)
      checksum == Checksum(_moduleType, h)
  IN  IF HasChecksum(_moduleType)
      THEN Put(Put(Put(h, 7, ToUint8(checksum)),
                          8, ToUint8(checksum \div 256)),
                          9, DFPLAYER_UART_END_BYTE)
      ELSE Put(h, 7, DFPLAYER_UART_END_BYTE)

\* _dataBuffer when _sendData returns
SendBuffer(buf, command, dataMSB, dataLSB) ==
  LET h == FillHeader(buf, command, dataMSB, dataLSB)
      checksum == Checksum(_moduleType, h)
  IN  IF HasChecksum(_moduleType)
      THEN Put(Put(Put(h, 7, ToUint8(checksum \div 256)),
                          8, ToUint8(checksum)),
                          9, DFPLAYER_UART_END_BYTE)
      ELSE Put(h, 7, DFPLAYER_UART_END_BYTE)

\* SendCalls with the delay of DFPLAYER_CMD_DELAY instead of _threshold
SendCallsFixedDelay(buf) ==
  IF HasChecksum(_moduleType)
  THEN <<Ev("write", Take(buf, DFPLAYER_UART_FRAME_SIZE), 0)>>
       \o (IF _moduleType = DFPLAYER_HW_247A
           THEN <<Ev("delay", <<>>, DFPLAYER_CMD_DELAY)>> ELSE <<>>)
  ELSE <<Ev("write", Take(buf, DFPLAYER_UART_FRAME_SIZE - 2), 0)>>

\* SendCalls writing 10 bytes whatever the module type
SendCallsAlwaysTen(buf) ==
  <<Ev("write", Take(buf, DFPLAYER_UART_FRAME_SIZE), 0)>>
    \o (IF _moduleType = DFPLAYER_HW_247A
        THEN <<Ev("delay", <<>>, _threshold)>> ELSE <<>>)

\* what _sendData does after the buffer is filled: _serial->write and,
\* for DFPLAYER_HW_247A, delay(_threshold)
SendCalls(buf) ==
  IF HasChecksum(_moduleType)
  THEN <<Ev("write", Take(buf, DFPLAYER_UART_FRAME_SIZE), 0)>>
       \o (IF _moduleType = DFPLAYER_HW_247A
           THEN <<Ev("delay", <<>>, _threshold)>> ELSE <<>>)
  ELSE <<Ev("write", Take(buf, DFPLAYER_UART_FRAME_SIZE - 2), 0)>>

_sendData(s, command, dataMSB, dataLSB) ==
  LET buf == SendBuffer(s.buf, command, dataMSB, dataLSB)
  IN  [buf |-> buf, io |-> s.io \o SendCalls(buf), rxq |-> s.rxq]

\* the bytes arrive at the stream while a method runs
Arrived(bytes) == IF bytes = <<>> THEN <<>> ELSE <<Ev("arrived", bytes, 0)>>

\* Stream::flush() as _readData uses it ("clear serial FIFO"): the unread
\* bytes that are left of q
Flush(q) == <<>>

\* s without its first n elements
Drop(s, n) == SubSeq(s, n + 1, Len(s))

\* Stream::readBytes(_dataBuffer, length) when the stream holds or receives
\* the bytes rx before the timeout: the count returned and the bytes stored
ReadCount(rx, length) == IF Len(rx) < length THEN Len(rx) ELSE length

ReadBytes(buf, rx, length) ==
  Take(rx, ReadCount(rx, length))
    \o SubSeq(buf, ReadCount(rx, length) + 1, DFPLAYER_UART_FRAME_SIZE)

\* FrameValid looking for the end byte where the 8-byte layout has it
FrameValidEndAt7(buf) ==
  /\ B(buf, 0) = DFPLAYER_UART_START_BYTE
  /\ B(buf, 1) = DFPLAYER_UART_VERSION
  /\ B(buf, 2) = DFPLAYER_UART_DATA_LEN
  /\ B(buf, 7) = DFPLAYER_UART_END_BYTE

\* FrameValid without the check of the end byte
FrameValidNoEnd(buf) ==
  /\ B(buf, 0) = DFPLAYER_UART_START_BYTE
  /\ B(buf, 1) = DFPLAYER_UART_VERSION
  /\ B(buf, 2) = DFPLAYER_UART_DATA_LEN

\* FrameValid with bytes 7 and 8 verified against the standard checksum
FrameValidChecked(buf) ==
  /\ B(buf, 0) = DFPLAYER_UART_START_BYTE
  /\ B(buf, 1) = DFPLAYER_UART_VERSION
  /\ B(buf, 2) = DFPLAYER_UART_DATA_LEN
  /\ B(buf, 9) = DFPLAYER_UART_END_BYTE
  /\ B(buf, 7) * 256 + B(buf, 8) = (0 - SumFields(buf)) % 65536

\* the check of the start, version, length and end bytes in _readData
FrameValid(buf) ==
  /\ B(buf, 0) = DFPLAYER_UART_START_BYTE
  /\ B(buf, 1) = DFPLAYER_UART_VERSION
  /\ B(buf, 2) = DFPLAYER_UART_DATA_LEN
  /\ B(buf, 9) = DFPLAYER_UART_END_BYTE

\* _readData asking for the number of bytes _sendData writes for the
\* module type, and checking the end byte at the end of that frame
_readDataByModel(s, rx) ==
  LET size == IF HasChecksum(_moduleType)
              THEN DFPLAYER_UART_FRAME_SIZE ELSE DFPLAYER_UART_FRAME_SIZE - 2
      fifo == Flush(s.rxq) \o rx
      n    == ReadCount(fifo, size)
      buf  == ReadBytes(Zeros, fifo, size)
      io2  == s.io \o <<Ev("flush", s.rxq, 0),
                        Ev("setTimeout", <<>>, _threshold)>>
                   \o Arrived(rx)
                   \o <<Ev("readBytes", Take(fifo, n), 0)>>
  IN  [buf |-> buf, io |-> io2, rxq |-> Drop(fifo, n),
       ok  |-> IF n # size THEN FALSE
               ELSE IF size = DFPLAYER_UART_FRAME_SIZE THEN FrameValid(buf)
               ELSE FrameValidEndAt7(buf)]

\* _readData over a stream whose flush() leaves the unread bytes in place
_readDataKeepsUnread(s, rx) ==
  LET fifo == s.rxq \o rx
      n    == ReadCount(fifo, DFPLAYER_UART_FRAME_SIZE)
      buf  == ReadBytes(Zeros, fifo, DFPLAYER_UART_FRAME_SIZE)
      io2  == s.io \o <<Ev("flush", <<>>, 0),
                        Ev("setTimeout", <<>>, _threshold)>>
                   \o Arrived(rx)
                   \o <<Ev("readBytes", Take(fifo, n), 0)>>
  IN  [buf |-> buf, io |-> io2, rxq |-> Drop(fifo, n),
       ok  |-> IF n # DFPLAYER_UART_FRAME_SIZE THEN FALSE ELSE FrameValid(buf)]

\* _readData without the call of flush()
_readDataNoFlush(s, rx) ==
  LET fifo == s.rxq \o rx
      n    == ReadCount(fifo, DFPLAYER_UART_FRAME_SIZE)
      buf  == ReadBytes(Zeros, fifo, DFPLAYER_UART_FRAME_SIZE)
      io2  == s.io \o <<Ev("setTimeout", <<>>, _threshold)>>
                   \o Arrived(rx)
                   \o <<Ev("readBytes", Take(fifo, n), 0)>>
  IN  [buf |-> buf, io |-> io2, rxq |-> Drop(fifo, n),
       ok  |-> IF n # DFPLAYER_UART_FRAME_SIZE THEN FALSE ELSE FrameValid(buf)]

\* the result of _readData, [buf, io, rxq, ok], when the bytes rx arrive
\* after the flush and before the timeout
_readData(s, rx) ==
  LET fifo == Flush(s.rxq) \o rx
      n    == ReadCount(fifo, DFPLAYER_UART_FRAME_SIZE)
      buf  == ReadBytes(Zeros, fifo, DFPLAYER_UART_FRAME_SIZE)
      io2  == s.io \o <<Ev("flush", s.rxq, 0),
                        Ev("setTimeout", <<>>, _threshold)>>
                   \o Arrived(rx)
                   \o <<Ev("readBytes", Take(fifo, n), 0)>>
  IN  [buf |-> buf, io |-> io2, rxq |-> Drop(fifo, n),
       ok  |-> IF n # DFPLAYER_UART_FRAME_SIZE THEN FALSE ELSE FrameValid(buf)]

\* _getResponse without the comparison of _dataBuffer[3] with the command
_getResponseAnyCommand(s, command, rx) ==
  LET r == _readData(s, rx)
  IN  [buf |-> r.buf, io |-> r.io, rxq |-> r.rxq, ok |-> r.ok,
       value |-> IF r.ok
                 THEN ToUint16(B(r.buf, 5) * 256 + B(r.buf, 6))
                 ELSE 0]

\* _getResponse that reads once more when the first read fails
_getResponseRetry(s, command, rx) ==
  LET r1 == _readData(s, rx)
      r  == IF r1.ok THEN r1 ELSE _readData(r1, <<>>)
  IN  [buf |-> r.buf, io |-> r.io, rxq |-> r.rxq, ok |-> r.ok,
       value |-> IF r.ok /\ B(r.buf, 3) = command
                 THEN ToUint16(B(r.buf, 5) * 256 + B(r.buf, 6))
                 ELSE 0]

\* the result of _getResponse: [buf, io, rxq, ok, value]
_getResponse(s, command, rx) ==
  LET r == _readData(s, rx)
  IN  [buf |-> r.buf, io |-> r.io, rxq |-> r.rxq, ok |-> r.ok,
       value |-> IF r.ok /\ B(r.buf, 3) = command
                 THEN ToUint16(B(r.buf, 5) * 256 + B(r.buf, 6))
                 ELSE 0]

\* the bytes arrive at the stream while the method is at s
Arrive(s, bytes) ==
  [s EXCEPT !.rxq = @ \o bytes, !.io = @ \o Arrived(bytes)]

\* the session as a method finds it
S0 == [buf |-> _dataBuffer, io |-> <<>>, rxq |-> rxFifo]

\* the callers that may be inside a method of the same object
Callers == {1, 2}

\* the locals of a caller that has called nothing: the arguments of
\* _sendData, whether _getResponse follows, int16_t checksum, the bytes
\* readBytes has stored, the time left of its timeout, the bytes the call
\* wrote, whether another caller ran during the call, the value returned
NoJob ==
  [command |-> 0, dataMSB |-> 0, dataLSB |-> 0, query |-> FALSE,
   checksum |-> 0, n |-> 0, left |-> 0, sent |-> <<>>, raced |-> FALSE,
   value |-> -1]

\* no caller is inside a method and the module has nothing to deliver
NoThreads ==
  /\ pc = [c \in Callers |-> "idle"]
  /\ job = [c \in Callers |-> NoJob]
  /\ wire = <<>>

---------------------------------------------------------------------------
(* Inputs the model draws *)

Near(x) == (x - Reach)..(x + Reach)

\* data bytes given to _sendData: around 0, 128 and 255, and 20 and 30
ByteSamples == (Near(0) \cup Near(128) \cup Near(255) \cup {20, 30}) \cap (0..255)

\* the timeouts a caller configures
TimeoutSamples == {100, DFPLAYER_CMD_DELAY}

\* every command code DFPlayer.h defines
ActionCommands ==
  {DFPLAYER_PLAY_NEXT, DFPLAYER_PLAY_PREV, DFPLAYER_PLAY_TRACK,
   DFPLAYER_SET_VOL_UP, DFPLAYER_SET_VOL_DOWN, DFPLAYER_SET_VOL,
   DFPLAYER_SET_EQ, DFPLAYER_LOOP_TRACK, DFPLAYER_SET_PLAY_SRC,
   DFPLAYER_SET_STANDBY_MODE, DFPLAYER_SET_NORMAL_MODE, DFPLAYER_RESET,
   DFPLAYER_RESUME_PLAYBACK, DFPLAYER_PAUSE, DFPLAYER_PLAY_FOLDER,
   DFPLAYER_SET_DAC_GAIN, DFPLAYER_REPEAT_ALL, DFPLAYER_PLAY_MP3_FOLDER,
   DFPLAYER_PLAY_ADVERT_FOLDER, DFPLAYER_PLAY_3000_FOLDER,
   DFPLAYER_STOP_ADVERT_FOLDER, DFPLAYER_STOP_PLAYBACK,
   DFPLAYER_REPEAT_FOLDER, DFPLAYER_RANDOM_ALL_FILES,
   DFPLAYER_LOOP_CURRENT_TRACK, DFPLAYER_SET_DAC,
   DFPLAYER_PLAY_ADVERT_FOLDER_N}

QueryCommands ==
  {DFPLAYER_GET_STATUS, DFPLAYER_GET_VOL, DFPLAYER_GET_EQ,
   DFPLAYER_GET_PLAY_MODE, DFPLAYER_GET_VERSION, DFPLAYER_GET_QNT_USB_FILES,
   DFPLAYER_GET_QNT_TF_FILES, DFPLAYER_GET_QNT_FLASH_FILES,
   DFPLAYER_GET_USB_TRACK, DFPLAYER_GET_TF_TRACK, DFPLAYER_GET_FLASH_TRACK,
   DFPLAYER_GET_QNT_FOLDER_FILES, DFPLAYER_GET_QNT_FOLDERS}

ReturnCodes ==
  {DFPLAYER_RETURN_CODE_OK_ACK, DFPLAYER_RETURN_ERROR,
   DFPLAYER_RETURN_CODE_DONE, DFPLAYER_RETURN_CODE_READY}

\* the command bytes given to _sendData: the defined ones and the two ends
CommandSamples == ActionCommands \cup QueryCommands \cup {0, 255}

\* data bytes of a reply
RxData == (0..Reach) \cup {30, 255}

\* bytes 7 and 8 of a reply: zero, the pair FF C2, and FE 9A
RxSums == {<<0, 0>>, <<255, 194>>, <<254, 154>>}

\* wrong values of a start, version, length or end byte
BadBytes == {0, 238}

\* a 10-byte reply with the four fixed bytes right
RxFrame(c, a, h, l, sum) ==
  <<DFPLAYER_UART_START_BYTE, DFPLAYER_UART_VERSION, DFPLAYER_UART_DATA_LEN,
    c, a, h, l, sum[1], sum[2], DFPLAYER_UART_END_BYTE>>

\* an 8-byte reply in the layout _sendData writes for DFPLAYER_NO_CHECKSUM
RxShortFrame(c, a, h, l) ==
  <<DFPLAYER_UART_START_BYTE, DFPLAYER_UART_VERSION, DFPLAYER_UART_DATA_LEN,
    c, a, h, l, DFPLAYER_UART_END_BYTE>>

WellFormed(cmds) ==
  {RxFrame(c, a, h, l, sum) :
     c \in cmds, a \in {0, 1}, h \in RxData, l \in RxData, sum \in RxSums}

\* f with one of bytes 0, 1, 2, 9 wrong
Corrupted(f) == {[f EXCEPT ![k] = v] : k \in {1, 2, 3, 10}, v \in BadBytes}

Prefixes(f) == {Take(f, n) : n \in 0..Len(f)}

\* what may arrive before the timeout in reply to a request: a well-formed
\* frame, one with a wrong fixed byte, any prefix of these (down to
\* nothing), or an 8-byte frame
RxSet(cmds) ==
  UNION {Prefixes(f) : f \in WellFormed(cmds) \cup UNION {Corrupted(g) : g \in WellFormed(cmds)}}
  \cup {RxShortFrame(c, a, h, l) : c \in cmds, a \in {0, 1}, h \in RxData, l \in RxData}

\* the bytes readBytes() obtained in the method that returned last
Received == EventsOf(io, "readBytes")[1].bytes

\* the frame the method that returned last wrote
Sent == Written(io)[1].bytes

---------------------------------------------------------------------------
(* CodecSpec: the private methods applied to drawn inputs.  A session that *)
(* begin() configured sends one frame with _sendData(command, dataMSB,     *)
(* dataLSB) and then reads the bytes it wrote back with                    *)
(* _getResponse(command); or it calls _getResponse(command) and a reply    *)
(* rx arrives.                                                             *)

CodecInit ==
  /\ begun = TRUE
  /\ _threshold \in TimeoutSamples
  /\ _ack \in BOOLEAN
  /\ _moduleType \in DFPLAYER_MODULE_TYPE
  /\ _dataBuffer = Zeros
  /\ lastOp = "none"
  /\ args = <<>>
  /\ io = <<>>
  /\ readOk = "none"
  /\ resp = -1
  /\ ret = -1
  /\ calls = 1
  /\ rxFifo = <<>>
  /\ NoThreads

CodecSend ==
  /\ lastOp = "none"
  /\ \E command \in CommandSamples, dataMSB \in ByteSamples, dataLSB \in ByteSamples :
       LET s == _sendData(S0, command, dataMSB, dataLSB)
       IN  /\ _dataBuffer' = s.buf
           /\ io' = s.io
           /\ args' = <<command, dataMSB, dataLSB>>
  /\ lastOp' = "_sendData"
  /\ UNCHANGED <<begun, session, readOk, resp, ret, calls, rxFifo, threads>>

CodecLoopback ==
  /\ lastOp = "_sendData"
  /\ LET s == _getResponse(S0, args[1], Sent)
     IN  /\ _dataBuffer' = s.buf
         /\ io' = s.io
         /\ readOk' = IF s.ok THEN "true" ELSE "false"
         /\ resp' = s.value
         /\ rxFifo' = s.rxq
  /\ lastOp' = "loopback"
  /\ UNCHANGED <<begun, session, args, ret, calls, threads>>

\* the commands CodecReceive asks for, and the command bytes of its replies
RxCommands == {DFPLAYER_GET_STATUS, DFPLAYER_GET_VOL}
RxReplyCommands == RxCommands \cup {DFPLAYER_RETURN_CODE_OK_ACK, DFPLAYER_RETURN_ERROR}

CodecReceive ==
  /\ lastOp = "none"
  /\ \E command \in RxCommands, rx \in RxSet(RxReplyCommands) :
       LET s == _getResponse(S0, command, rx)
       IN  /\ _dataBuffer' = s.buf
           /\ io' = s.io
           /\ readOk' = IF s.ok THEN "true" ELSE "false"
           /\ resp' = s.value
           /\ args' = <<command>>
           /\ rxFifo' = s.rxq
  /\ lastOp' = "_getResponse"
  /\ UNCHANGED <<begun, session, ret, calls, threads>>

CodecNext == CodecSend \/ CodecLoopback \/ CodecReceive

CodecSpec == CodecInit /\ [][CodecNext]_vars

---------------------------------------------------------------------------
(* Claims about the frame codec, checked under CodecSpec *)

\* the 16-bit value formed big-endian from bytes 7 and 8 of a frame
SumBytes(f) == B(f, 7) * 256 + B(f, 8)

\* version + length + command + ack + dataHigh + dataLow of the call
\* _sendData(args[1], args[2], args[3])
ClaimedSum ==
  DFPLAYER_UART_VERSION + DFPLAYER_UART_DATA_LEN
    + args[1] + BoolToInt(_ack) + args[2] + args[3]

\* the fixed bytes of a 10-byte reply are right
RxShapeOk(rx) ==
  /\ Len(rx) = DFPLAYER_UART_FRAME_SIZE
  /\ B(rx, 0) = DFPLAYER_UART_START_BYTE
  /\ B(rx, 1) = DFPLAYER_UART_VERSION
  /\ B(rx, 2) = DFPLAYER_UART_DATA_LEN
  /\ B(rx, 9) = DFPLAYER_UART_END_BYTE

\* 7E FF 06 43 00 00 1E FF C2 EF
VolumeReply == <<126, 255, 6, 67, 0, 0, 30, 255, 194, 239>>

\* C1: every frame _sendData writes while the module type is DFPLAYER_MINI
\* or DFPLAYER_HW_247A carries in bytes 7 and 8, big-endian, the value
\* (0 - (0xFF + 0x06 + command + ack + dataHigh + dataLow)) mod 2^16.
C1_StandardChecksum ==
  (lastOp = "_sendData" /\ _moduleType \in {DFPLAYER_MINI, DFPLAYER_HW_247A})
    => /\ Len(Written(io)) = 1
       /\ Len(Sent) = DFPLAYER_UART_FRAME_SIZE
       /\ SumBytes(Sent) = (0 - ClaimedSum) % 65536

C1_Witness ==
  /\ lastOp = "_sendData"
  /\ _moduleType = DFPLAYER_HW_247A
  /\ _ack
  /\ args = <<DFPLAYER_PLAY_TRACK, 255, 255>>
  /\ SumBytes(Sent) = 64761

\* C2 as the specification states it: every frame _sendData writes while
\* the module type is DFPLAYER_FN_X10P carries in bytes 7 and 8, big-endian,
\* the value (0xFFFF - (0xFF + 0x06 + command + ack + dataHigh + dataLow) + 1)
\* mod 2^16.
C2_AltChecksum ==
  (lastOp = "_sendData" /\ _moduleType = DFPLAYER_FN_X10P)
    => /\ Len(Sent) = DFPLAYER_UART_FRAME_SIZE
       /\ SumBytes(Sent) = (65535 - ClaimedSum + 1) % 65536

\* C5: for the module types that send 10 bytes, reading back the bytes
\* _sendData(command, dataHigh, dataLow) wrote as the reply to the same
\* command makes _getResponse return (dataHigh << 8) | dataLow.
C5_RoundTrip ==
  (lastOp = "loopback" /\ HasChecksum(_moduleType))
    => /\ readOk = "true"
       /\ resp = args[2] * 256 + args[3]

C5_Witness ==
  /\ lastOp = "loopback"
  /\ _moduleType = DFPLAYER_FN_X10P
  /\ args[2] = 1
  /\ args[3] = 255
  /\ resp = 511

\* C6: with a 10-byte module type, when _getResponse(C) reads exactly 10
\* bytes with bytes 0, 1, 2, 9 equal to 7E, FF, 06, EF and byte 3 equal to C,
\* it returns (byte5 << 8) | byte6 whatever bytes 4, 7 and 8 are; a volume
\* query reading 7E FF 06 43 00 00 1E FF C2 EF yields 30.
C6_DecodeIgnoresChecksum ==
  (lastOp = "_getResponse" /\ HasChecksum(_moduleType))
    => /\ (RxShapeOk(Received) /\ B(Received, 3) = args[1])
            => resp = B(Received, 5) * 256 + B(Received, 6)
       /\ (args[1] = DFPLAYER_GET_VOL /\ Received = VolumeReply) => resp = 30

C6_Witness ==
  /\ lastOp = "_getResponse"
  /\ HasChecksum(_moduleType)
  /\ args[1] = DFPLAYER_GET_VOL
  /\ Received = VolumeReply
  /\ SumBytes(Received) # (0 - SumFields(Received)) % 65536
  /\ resp = 30

\* C7: with a 10-byte module type, _readData reports failure and
\* _getResponse returns 0 for every reply of fewer than 10 bytes and every
\* 10-byte reply whose byte 0 is not 7E, byte 1 not FF, byte 2 not 06 or
\* byte 9 not EF, whatever bytes 7 and 8 are and whether or not byte 3 is
\* the requested command.
C7_RejectsMalformed ==
  (lastOp = "_getResponse" /\ HasChecksum(_moduleType) /\ ~RxShapeOk(Received))
    => /\ readOk = "false"
       /\ resp = 0

\* a 10-byte reply to the requested command with a payload, a checksum
\* that is right and a wrong end byte
C7_Witness ==
  /\ lastOp = "_getResponse"
  /\ HasChecksum(_moduleType)
  /\ Len(Received) = DFPLAYER_UART_FRAME_SIZE
  /\ B(Received, 9) # DFPLAYER_UART_END_BYTE
  /\ B(Received, 3) = args[1]
  /\ B(Received, 6) = 30
  /\ SumBytes(Received) = (0 - SumFields(Received)) % 65536
  /\ readOk = "false"
  /\ resp = 0

\* a well-formed 8-byte reply 7E FF 06 C ack DH DL EF to command C
RxShortOk(rx, command) ==
  /\ Len(rx) = DFPLAYER_UART_FRAME_SIZE - 2
  /\ B(rx, 0) = DFPLAYER_UART_START_BYTE
  /\ B(rx, 1) = DFPLAYER_UART_VERSION
  /\ B(rx, 2) = DFPLAYER_UART_DATA_LEN
  /\ B(rx, 3) = command
  /\ B(rx, 7) = DFPLAYER_UART_END_BYTE

\* C8 as the specification states it: with DFPLAYER_NO_CHECKSUM a
\* well-formed 8-byte reply to the requested command is accepted and
\* decoded to (DH << 8) | DL.
C8_ShortReplyAccepted ==
  (lastOp = "_getResponse" /\ _moduleType = DFPLAYER_NO_CHECKSUM
     /\ RxShortOk(Received, args[1]))
    => /\ readOk = "true"
       /\ resp = B(Received, 5) * 256 + B(Received, 6)

\* C8 amended: with DFPLAYER_NO_CHECKSUM the receive path still asks for 10
\* bytes and checks the end byte at index 9: an 8-byte reply is rejected
\* and the result is 0, and a 10-byte reply with the fixed bytes right and
\* byte 3 the requested command is decoded to (DH << 8) | DL.
C8_NoChecksumReadsTen ==
  (lastOp = "_getResponse" /\ _moduleType = DFPLAYER_NO_CHECKSUM)
    => /\ RxShortOk(Received, args[1]) => (readOk = "false" /\ resp = 0)
       /\ (RxShapeOk(Received) /\ B(Received, 3) = args[1])
            => (readOk = "true"
                /\ resp = B(Received, 5) * 256 + B(Received, 6))

C8_Witness ==
  /\ lastOp = "_getResponse"
  /\ _moduleType = DFPLAYER_NO_CHECKSUM
  /\ RxShortOk(Received, args[1])
  /\ B(Received, 6) = 30
  /\ readOk = "false"
  /\ resp = 0

---------------------------------------------------------------------------
(* The public methods.  Spec is a session: begin() and then any sequence   *)
(* of calls, each with arguments and, for a query, a reply drawn from the  *)
(* sets below.                                                             *)

\* constrain that returns its argument
constrainNone(amt, low, high) == amt

\* Arduino's constrain(amt, low, high)
constrain(amt, low, high) ==
  IF amt < low THEN low ELSE IF amt > high THEN high ELSE amt

\* arguments of a uint8_t parameter with legal range low..high.  Wide (w):
\* both ends, up to Reach beyond each, and 255; narrow: one beyond the
\* upper end (255 when that is the upper end)
U8Samples(w, low, high) ==
  IF w
  THEN (((low - Reach)..low) \cup (high..(high + Reach)) \cup {255}) \cap (0..255)
  ELSE {IF high < 255 THEN high + 1 ELSE 255}

\* arguments of a uint16_t parameter with legal range low..high
U16Samples(w, low, high) ==
  IF w
  THEN (((low - Reach)..low) \cup (high..(high + Reach)) \cup {65535}) \cap (0..65535)
  ELSE {high + 1}

\* payloads (DH, DL) of the replies to a query
PayloadSamples ==
  {<<h, l>> : h \in 0..(Reach + 1), l \in 0..(Reach + 1)}
    \cup {<<0, 30>>, <<255, 255>>}

\* 7E FF 06 3F 00 00 02 FE BA EF: the frame the module sends by itself
\* when it is ready after boot or reset
ReadyFrame == RxFrame(DFPLAYER_RETURN_CODE_READY, 0, 0, 2, <<254, 186>>)

\* 7E FF 06 3D 00 00 01 FE BB EF: the frame the module sends by itself
\* when track 1 has been played
DoneFrame == RxFrame(DFPLAYER_RETURN_CODE_DONE, 0, 0, 1, <<254, 187>>)

\* 7E FF 06 41 00 00 00 FE BA EF: the module accepts a command that asked
\* for feedback
OkFrame == RxFrame(DFPLAYER_RETURN_CODE_OK_ACK, 0, 0, 0, <<254, 186>>)

\* 7E FF 06 40 00 00 06 FE B5 EF: the module reports error 6
ErrorFrame == RxFrame(DFPLAYER_RETURN_ERROR, 0, 0, 6, <<254, 181>>)

\* what may arrive before the timeout in reply to the query command.
\* Wide: replies to it, the frames the module sends for an accepted
\* command, an error, a track played and ready, a reply to another query,
\* replies with one wrong fixed byte, an acknowledgement followed by the
\* reply, an 8-byte reply, 4 bytes, 9 bytes, the first 9 bytes of an error
\* frame, an acknowledgement with a wrong end byte, and nothing;
\* narrow: a reply to it, an error reply and nothing
QueryRx(w, command) ==
  IF w
  THEN {RxFrame(command, 0, p[1], p[2], <<255, 194>>) : p \in PayloadSamples}
       \cup {OkFrame, ErrorFrame, DoneFrame, ReadyFrame,
             RxFrame(DFPLAYER_GET_QNT_FOLDERS - command + DFPLAYER_GET_STATUS,
                     0, 2, 1, <<0, 0>>)}
       \cup Corrupted(RxFrame(command, 0, 2, 1, <<255, 194>>))
       \cup {OkFrame \o RxFrame(command, 0, 2, 1, <<255, 194>>),
             RxShortFrame(command, 0, 2, 1),
             Take(RxFrame(command, 0, 2, 1, <<255, 194>>), 4),
             Take(RxFrame(command, 0, 2, 1, <<255, 194>>), 9),
             Take(ErrorFrame, 9),
             Take(OkFrame, 9) \o <<0>>,
             <<>>}
  ELSE {RxFrame(command, 0, 2, 1, <<255, 194>>),
        RxFrame(DFPLAYER_RETURN_ERROR, 0, 0, 6, <<254, 181>>),
        <<>>}

\* what may arrive between the write of a query and its flush.  Wide:
\* nothing or the reply; narrow: nothing
EarlyRx(w, command) ==
  IF w THEN {<<>>, RxFrame(command, 0, 2, 1, <<255, 194>>)} ELSE {<<>>}

\* _dataBuffer as the constructor leaves it: not initialised
InitBuffers ==
  {Zeros, [i \in 1..DFPLAYER_UART_FRAME_SIZE |-> IF i = 4 THEN 64 ELSE 170]}

\* what the stream holds unread before begin(): nothing, or the frame the
\* module sent after its boot
InitFifos == {<<>>, ReadyFrame}

\* what the module sends in answer to the frames of a method that reads
\* nothing.  Wide: nothing, an error, and the acknowledgement when
\* feedback is on; narrow: the acknowledgement when feedback is on
Answers(w, s) ==
  IF Written(s.io) = <<>> THEN {<<>>}
  ELSE IF w THEN {<<>>, ErrorFrame} \cup (IF _ack THEN {OkFrame} ELSE {})
  ELSE {IF _ack THEN OkFrame ELSE <<>>}

Init ==
  /\ begun = FALSE
  /\ _threshold \in TimeoutSamples
  /\ _ack \in BOOLEAN
  /\ _moduleType \in DFPLAYER_MODULE_TYPE
  /\ _dataBuffer \in InitBuffers
  /\ lastOp = "none"
  /\ args = <<>>
  /\ io = <<>>
  /\ readOk = "none"
  /\ resp = -1
  /\ ret = -1
  /\ calls = 0
  /\ rxFifo \in InitFifos
  /\ NoThreads

\* the method op is called with arguments a by the one owner of the
\* session, and runs to its end before anything else happens
Call(op, a) ==
  /\ calls < MaxCalls
  /\ calls' = calls + 1
  /\ lastOp' = op
  /\ args' = a
  /\ UNCHANGED threads

\* a void method that leaves the session fields alone returns from s; the
\* answer of the module to what it wrote waits in the stream
Void(w, s) ==
  /\ _dataBuffer' = s.buf
  /\ io' = s.io
  /\ \E answer \in Answers(w, s) : rxFifo' = s.rxq \o answer
  /\ readOk' = "none"
  /\ resp' = -1
  /\ ret' = -1
  /\ UNCHANGED <<begun, session>>

\* DFPlayer::begin
begin ==
  \E threshold \in TimeoutSamples, moduleType \in DFPLAYER_MODULE_TYPE,
     feedback \in BOOLEAN, bootDelay \in BOOLEAN :
    /\ Call("begin", <<threshold, moduleType, BoolToInt(feedback), BoolToInt(bootDelay)>>)
    /\ begun' = TRUE
    /\ _threshold' = threshold
    /\ _ack' = feedback
    /\ _moduleType' = moduleType
    /\ io' = IF bootDelay THEN <<Ev("delay", <<>>, DFPLAYER_BOOT_DELAY)>> ELSE <<>>
    /\ readOk' = "none"
    /\ resp' = -1
    /\ ret' = -1
    /\ UNCHANGED <<_dataBuffer, rxFifo>>

\* setModel that also takes the feedback flag back to its default
setModelDefaults ==
  \E moduleType \in DFPLAYER_MODULE_TYPE :
    /\ Call("setModel", <<moduleType>>)
    /\ _moduleType' = moduleType
    /\ _ack' = FALSE
    /\ io' = <<>> /\ readOk' = "none" /\ resp' = -1 /\ ret' = -1
    /\ UNCHANGED <<begun, _threshold, _dataBuffer, rxFifo>>

\* DFPlayer::setModel
setModel ==
  \E moduleType \in DFPLAYER_MODULE_TYPE :
    /\ Call("setModel", <<moduleType>>)
    /\ _moduleType' = moduleType
    /\ io' = <<>> /\ readOk' = "none" /\ resp' = -1 /\ ret' = -1
    /\ UNCHANGED <<begun, _threshold, _ack, _dataBuffer, rxFifo>>

\* DFPlayer::setTimeout
setTimeout ==
  \E threshold \in TimeoutSamples :
    /\ Call("setTimeout", <<threshold>>)
    /\ _threshold' = threshold
    /\ io' = <<>> /\ readOk' = "none" /\ resp' = -1 /\ ret' = -1
    /\ UNCHANGED <<begun, _moduleType, _ack, _dataBuffer, rxFifo>>

\* DFPlayer::setFeedback
setFeedback ==
  \E enable \in BOOLEAN :
    /\ Call("setFeedback", <<BoolToInt(enable)>>)
    /\ _ack' = enable
    /\ io' = <<>> /\ readOk' = "none" /\ resp' = -1 /\ ret' = -1
    /\ UNCHANGED <<begun, _threshold, _moduleType, _dataBuffer, rxFifo>>

\* DoSetSource with delay(200) whatever the source
DoSetSourceAlwaysDelay(s, source) ==
  LET s1 == _sendData(s, DFPLAYER_SET_PLAY_SRC, 0, constrain(source, 1, 6))
  IN  [s1 EXCEPT !.io = @ \o <<Ev("delay", <<>>, 200)>>]

\* the body of DFPlayer::setSource
DoSetSource(s, source) ==
  LET src == constrain(source, 1, 6)
      s1  == _sendData(s, DFPLAYER_SET_PLAY_SRC, 0, src)
  IN  [s1 EXCEPT !.io = @ \o (IF src # 6 THEN <<Ev("delay", <<>>, 200)>> ELSE <<>>)]

\* DoWakeup without the test source != 6
DoWakeupAnySource(s, source) == DoSetSource(s, source)

\* the body of DFPlayer::wakeup
DoWakeup(s, source) == IF source # 6 THEN DoSetSource(s, source) ELSE s

\* DFPlayer::setSource
setSource(w) ==
  /\ begun
  /\ \E source \in U8Samples(w, 1, 6) :
       Call("setSource", <<source>>) /\ Void(w, DoSetSource(S0, source))

\* DFPlayer::playTrack
playTrack(w) ==
  /\ begun
  /\ \E track \in U16Samples(w, 1, 9999) :
       /\ Call("playTrack", <<track>>)
       /\ LET t == constrain(track, 1, 9999)
          IN  Void(w, _sendData(S0, DFPLAYER_PLAY_TRACK, ToUint8(t \div 256), ToUint8(t)))

\* DFPlayer::next
next(w) ==
  begun /\ Call("next", <<>>) /\ Void(w, _sendData(S0, DFPLAYER_PLAY_NEXT, 0, 0))

\* DFPlayer::previous
previous(w) ==
  begun /\ Call("previous", <<>>) /\ Void(w, _sendData(S0, DFPLAYER_PLAY_PREV, 0, 0))

\* DFPlayer::pause
pause(w) ==
  begun /\ Call("pause", <<>>) /\ Void(w, _sendData(S0, DFPLAYER_PAUSE, 0, 0))

\* DFPlayer::resume
resume(w) ==
  begun /\ Call("resume", <<>>) /\ Void(w, _sendData(S0, DFPLAYER_RESUME_PLAYBACK, 0, 0))

\* DFPlayer::stop
stop(w) ==
  begun /\ Call("stop", <<>>) /\ Void(w, _sendData(S0, DFPLAYER_STOP_PLAYBACK, 0, 0))

\* DFPlayer::playFolder
playFolder(w) ==
  /\ begun
  /\ \E folder \in U8Samples(w, 1, 99), track \in U8Samples(w, 1, 255) :
       /\ Call("playFolder", <<folder, track>>)
       /\ Void(w, _sendData(S0, DFPLAYER_PLAY_FOLDER,
                         constrain(folder, 1, 99), constrain(track, 1, 255)))

\* DFPlayer::playMP3Folder
playMP3Folder(w) ==
  /\ begun
  /\ \E track \in U16Samples(w, 1, 9999) :
       /\ Call("playMP3Folder", <<track>>)
       /\ LET t == constrain(track, 1, 9999)
          IN  Void(w, _sendData(S0, DFPLAYER_PLAY_MP3_FOLDER, ToUint8(t \div 256), ToUint8(t)))

\* DFPlayer::play3000Folder
play3000Folder(w) ==
  /\ begun
  /\ \E track \in U16Samples(w, 1, 3000) :
       /\ Call("play3000Folder", <<track>>)
       /\ LET t == constrain(track, 1, 3000)
          IN  Void(w, _sendData(S0, DFPLAYER_PLAY_3000_FOLDER, ToUint8(t \div 256), ToUint8(t)))

\* DFPlayer::playAdvertFolder(uint16_t track)
playAdvertFolder(w) ==
  /\ begun
  /\ \E track \in U16Samples(w, 1, 9999) :
       /\ Call("playAdvertFolder", <<track>>)
       /\ LET t == constrain(track, 1, 9999)
          IN  Void(w, _sendData(S0, DFPLAYER_PLAY_ADVERT_FOLDER, ToUint8(t \div 256), ToUint8(t)))

\* DFPlayer::playAdvertFolder(uint8_t folder, uint8_t track)
playAdvertFolderN(w) ==
  /\ begun
  /\ \E folder \in U8Samples(w, 1, 9), track \in U8Samples(w, 1, 255) :
       /\ Call("playAdvertFolderN", <<folder, track>>)
       /\ Void(w, _sendData(S0, DFPLAYER_PLAY_ADVERT_FOLDER_N,
                         constrain(folder, 1, 9), constrain(track, 1, 255)))

\* DFPlayer::stopAdvertFolder
stopAdvertFolder(w) ==
  begun /\ Call("stopAdvertFolder", <<>>)
        /\ Void(w, _sendData(S0, DFPLAYER_STOP_ADVERT_FOLDER, 0, 0))

\* DFPlayer::setVolume
setVolume(w) ==
  /\ begun
  /\ \E volume \in U8Samples(w, 0, 30) \cup {20} :
       /\ Call("setVolume", <<volume>>)
       /\ Void(w, _sendData(S0, DFPLAYER_SET_VOL, 0, constrain(volume, 0, 30)))

\* DFPlayer::volumeUp
volumeUp(w) ==
  begun /\ Call("volumeUp", <<>>) /\ Void(w, _sendData(S0, DFPLAYER_SET_VOL_UP, 0, 0))

\* DFPlayer::volumeDown
volumeDown(w) ==
  begun /\ Call("volumeDown", <<>>) /\ Void(w, _sendData(S0, DFPLAYER_SET_VOL_DOWN, 0, 0))

\* DFPlayer::enableDAC
enableDAC(w) ==
  /\ begun
  /\ \E enable \in BOOLEAN :
       /\ Call("enableDAC", <<BoolToInt(enable)>>)
       /\ Void(w, _sendData(S0, DFPLAYER_SET_DAC, 0, BoolToInt(~enable)))

\* DFPlayer::setDACGain
setDACGain(w) ==
  /\ begun
  /\ \E gain \in U8Samples(w, 0, 31), enable \in BOOLEAN :
       /\ Call("setDACGain", <<gain, BoolToInt(enable)>>)
       /\ Void(w, _sendData(S0, DFPLAYER_SET_DAC_GAIN,
                         BoolToInt(enable), constrain(gain, 0, 31)))

\* DFPlayer::setEQ
setEQ(w) ==
  /\ begun
  /\ \E preset \in U8Samples(w, 0, 5) :
       /\ Call("setEQ", <<preset>>)
       /\ Void(w, _sendData(S0, DFPLAYER_SET_EQ, 0, constrain(preset, 0, 5)))

\* DFPlayer::repeatTrack
repeatTrack(w) ==
  /\ begun
  /\ \E track \in U16Samples(w, 1, 9999) :
       /\ Call("repeatTrack", <<track>>)
       /\ LET t == constrain(track, 1, 9999)
          IN  Void(w, _sendData(S0, DFPLAYER_LOOP_TRACK, ToUint8(t \div 256), ToUint8(t)))

\* DFPlayer::repeatCurrentTrack
repeatCurrentTrack(w) ==
  /\ begun
  /\ \E enable \in BOOLEAN :
       /\ Call("repeatCurrentTrack", <<BoolToInt(enable)>>)
       /\ Void(w, _sendData(S0, DFPLAYER_LOOP_CURRENT_TRACK, 0, BoolToInt(~enable)))

\* DFPlayer::repeatAll
repeatAll(w) ==
  /\ begun
  /\ \E enable \in BOOLEAN :
       /\ Call("repeatAll", <<BoolToInt(enable)>>)
       /\ Void(w, _sendData(S0, DFPLAYER_REPEAT_ALL, 0, BoolToInt(enable)))

\* DFPlayer::repeatFolder
repeatFolder(w) ==
  /\ begun
  /\ \E folder \in U16Samples(w, 1, 99) :
       /\ Call("repeatFolder", <<folder>>)
       /\ Void(w, _sendData(S0, DFPLAYER_REPEAT_FOLDER, 0, ToUint8(constrain(folder, 1, 99))))

\* DFPlayer::randomAll
randomAll(w) ==
  begun /\ Call("randomAll", <<>>)
        /\ Void(w, _sendData(S0, DFPLAYER_RANDOM_ALL_FILES, 0, 0))

\* DFPlayer::sleep
sleep(w) ==
  begun /\ Call("sleep", <<>>) /\ Void(w, DoSetSource(S0, 6))

\* DFPlayer::wakeup
wakeup(w) ==
  /\ begun
  /\ \E source \in U8Samples(w, 1, 6) :
       Call("wakeup", <<source>>) /\ Void(w, DoWakeup(S0, source))

\* DFPlayer::enableStandby
enableStandby(w) ==
  /\ begun
  /\ \E enable \in BOOLEAN, source \in U8Samples(w, 1, 6) :
       /\ Call("enableStandby", <<BoolToInt(enable), source>>)
       /\ Void(w, IF enable
               THEN _sendData(S0, DFPLAYER_SET_STANDBY_MODE, 0, 0)
               ELSE DoWakeup(S0, source))

\* DFPlayer::reset
reset(w) ==
  /\ begun
  /\ Call("reset", <<>>)
  /\ LET s == _sendData(S0, DFPLAYER_RESET, 0, 0)
     IN  Void(w, [s EXCEPT !.io = @ \o <<Ev("delay", <<>>, DFPLAYER_BOOT_DELAY)>>])

---------------------------------------------------------------------------
(* The queries: _sendData(command, 0, dataLSB), then _getResponse(command) *)
(* while the bytes rx arrive.                                              *)

DoQuery(command, dataLSB, early, rx) ==
  _getResponse(Arrive(_sendData(S0, command, 0, dataLSB), early), command, rx)

\* a query returns the value v from r, the result of its _getResponse
Returned(r, v) ==
  /\ _dataBuffer' = r.buf
  /\ io' = r.io
  /\ readOk' = IF r.ok THEN "true" ELSE "false"
  /\ resp' = r.value
  /\ ret' = v
  /\ rxFifo' = r.rxq
  /\ UNCHANGED <<begun, session>>

\* StatusOf with case 0x0000 answering 4 whatever the module type
StatusOfAlwaysError(value) ==
  CASE value = 512 -> 0
    [] value = 513 -> 1
    [] value = 514 -> 2
    [] value = 2   -> 3
    [] value = 1   -> IF _moduleType # DFPLAYER_HW_247A THEN 5 ELSE 1
    [] value = 0   -> 4
    [] OTHER       -> 5

\* the switch of DFPlayer::getStatus on the value of _getResponse
StatusOf(value) ==
  CASE value = 512 -> 0
    [] value = 513 -> 1
    [] value = 514 -> 2
    [] value = 2   -> 3
    [] value = 1   -> IF _moduleType # DFPLAYER_HW_247A THEN 5 ELSE 1
    [] value = 0   -> IF _moduleType # DFPLAYER_HW_247A THEN 4 ELSE 0
    [] OTHER       -> 5

\* DFPlayer::getStatus
getStatus(w) ==
  /\ begun
  /\ Call("getStatus", <<>>)
  /\ \E early \in EarlyRx(w, DFPLAYER_GET_STATUS), rx \in QueryRx(w, DFPLAYER_GET_STATUS) :
       LET r == DoQuery(DFPLAYER_GET_STATUS, 0, early, rx)
       IN  Returned(r, StatusOf(r.value))

\* DFPlayer::getVolume
getVolume(w) ==
  /\ begun
  /\ Call("getVolume", <<>>)
  /\ \E early \in EarlyRx(w, DFPLAYER_GET_VOL), rx \in QueryRx(w, DFPLAYER_GET_VOL) :
       LET r == DoQuery(DFPLAYER_GET_VOL, 0, early, rx)
       IN  Returned(r, ToUint8(r.value))

\* DFPlayer::getEQ
getEQ(w) ==
  /\ begun
  /\ Call("getEQ", <<>>)
  /\ \E early \in EarlyRx(w, DFPLAYER_GET_EQ), rx \in QueryRx(w, DFPLAYER_GET_EQ) :
       LET r == DoQuery(DFPLAYER_GET_EQ, 0, early, rx)
       IN  Returned(r, ToUint8(r.value))

\* DFPlayer::getPlayMode
getPlayMode(w) ==
  /\ begun
  /\ Call("getPlayMode", <<>>)
  /\ \E early \in EarlyRx(w, DFPLAYER_GET_PLAY_MODE), rx \in QueryRx(w, DFPLAYER_GET_PLAY_MODE) :
       LET r == DoQuery(DFPLAYER_GET_PLAY_MODE, 0, early, rx)
       IN  Returned(r, ToUint8(r.value))

\* DFPlayer::getVersion
getVersion(w) ==
  /\ begun
  /\ Call("getVersion", <<>>)
  /\ \E early \in EarlyRx(w, DFPLAYER_GET_VERSION), rx \in QueryRx(w, DFPLAYER_GET_VERSION) :
       LET r == DoQuery(DFPLAYER_GET_VERSION, 0, early, rx)
       IN  Returned(r, ToUint8(r.value))

\* DFPlayer::getTotalTracksSD
getTotalTracksSD(w) ==
  /\ begun
  /\ Call("getTotalTracksSD", <<>>)
  /\ \E early \in EarlyRx(w, DFPLAYER_GET_QNT_TF_FILES), rx \in QueryRx(w, DFPLAYER_GET_QNT_TF_FILES) :
       LET r == DoQuery(DFPLAYER_GET_QNT_TF_FILES, 0, early, rx)
       IN  Returned(r, r.value)

\* DFPlayer::getTotalTracksUSB
getTotalTracksUSB(w) ==
  /\ begun
  /\ Call("getTotalTracksUSB", <<>>)
  /\ \E early \in EarlyRx(w, DFPLAYER_GET_QNT_USB_FILES), rx \in QueryRx(w, DFPLAYER_GET_QNT_USB_FILES) :
       LET r == DoQuery(DFPLAYER_GET_QNT_USB_FILES, 0, early, rx)
       IN  Returned(r, r.value)

\* DFPlayer::getTotalTracksNORFlash
getTotalTracksNORFlash(w) ==
  /\ begun
  /\ Call("getTotalTracksNORFlash", <<>>)
  /\ \E early \in EarlyRx(w, DFPLAYER_GET_QNT_FLASH_FILES), rx \in QueryRx(w, DFPLAYER_GET_QNT_FLASH_FILES) :
       LET r == DoQuery(DFPLAYER_GET_QNT_FLASH_FILES, 0, early, rx)
       IN  Returned(r, r.value)

\* DFPlayer::getTrackSD
getTrackSD(w) ==
  /\ begun
  /\ Call("getTrackSD", <<>>)
  /\ \E early \in EarlyRx(w, DFPLAYER_GET_TF_TRACK), rx \in QueryRx(w, DFPLAYER_GET_TF_TRACK) :
       LET r == DoQuery(DFPLAYER_GET_TF_TRACK, 0, early, rx)
       IN  Returned(r, r.value)

\* DFPlayer::getTrackUSB
getTrackUSB(w) ==
  /\ begun
  /\ Call("getTrackUSB", <<>>)
  /\ \E early \in EarlyRx(w, DFPLAYER_GET_USB_TRACK), rx \in QueryRx(w, DFPLAYER_GET_USB_TRACK) :
       LET r == DoQuery(DFPLAYER_GET_USB_TRACK, 0, early, rx)
       IN  Returned(r, r.value)

\* DFPlayer::getTrackNORFlash
getTrackNORFlash(w) ==
  /\ begun
  /\ Call("getTrackNORFlash", <<>>)
  /\ \E early \in EarlyRx(w, DFPLAYER_GET_FLASH_TRACK), rx \in QueryRx(w, DFPLAYER_GET_FLASH_TRACK) :
       LET r == DoQuery(DFPLAYER_GET_FLASH_TRACK, 0, early, rx)
       IN  Returned(r, r.value)

\* DFPlayer::getTotalTracksFolder
getTotalTracksFolder(w) ==
  /\ begun
  /\ \E folder \in U8Samples(w, 1, 99) :
       /\ Call("getTotalTracksFolder", <<folder>>)
       /\ \E early \in EarlyRx(w, DFPLAYER_GET_QNT_FOLDER_FILES), rx \in QueryRx(w, DFPLAYER_GET_QNT_FOLDER_FILES) :
            LET r == DoQuery(DFPLAYER_GET_QNT_FOLDER_FILES, folder, early, rx)
            IN  Returned(r, ToUint8(r.value))

\* DFPlayer::getTotalFolders
getTotalFolders(w) ==
  /\ begun
  /\ Call("getTotalFolders", <<>>)
  /\ \E early \in EarlyRx(w, DFPLAYER_GET_QNT_FOLDERS), rx \in QueryRx(w, DFPLAYER_GET_QNT_FOLDERS) :
       LET r == DoQuery(DFPLAYER_GET_QNT_FOLDERS, 0, early, rx)
       IN  Returned(r, ToUint8(r.value))

\* CommandStatusOf giving back _dataBuffer[3] when it is no status it knows
CommandStatusOfEcho(buf) ==
  CASE B(buf, 3) = DFPLAYER_RETURN_ERROR         -> B(buf, 6)
    [] B(buf, 3) = DFPLAYER_RETURN_CODE_OK_ACK   -> 11
    [] B(buf, 3) = DFPLAYER_RETURN_CODE_DONE     -> 12
    [] B(buf, 3) = DFPLAYER_RETURN_CODE_READY    -> 13
    [] OTHER                                     -> B(buf, 3)

\* CommandStatusOf taking the error value from _dataBuffer[5]
CommandStatusOfDataHigh(buf) ==
  CASE B(buf, 3) = DFPLAYER_RETURN_ERROR         -> B(buf, 5)
    [] B(buf, 3) = DFPLAYER_RETURN_CODE_OK_ACK   -> 11
    [] B(buf, 3) = DFPLAYER_RETURN_CODE_DONE     -> 12
    [] B(buf, 3) = DFPLAYER_RETURN_CODE_READY    -> 13
    [] OTHER                                     -> 0

\* the switch of DFPlayer::getCommandStatus on _dataBuffer[3]
CommandStatusOf(buf) ==
  CASE B(buf, 3) = DFPLAYER_RETURN_ERROR         -> B(buf, 6)
    [] B(buf, 3) = DFPLAYER_RETURN_CODE_OK_ACK   -> 11
    [] B(buf, 3) = DFPLAYER_RETURN_CODE_DONE     -> 12
    [] B(buf, 3) = DFPLAYER_RETURN_CODE_READY    -> 13
    [] OTHER                                     -> 0

\* getCommandStatus reporting a status once: it clears the buffer it read
getCommandStatusOnce ==
  /\ Call("getCommandStatus", <<>>)
  /\ ret' = CommandStatusOf(_dataBuffer)
  /\ _dataBuffer' = Zeros
  /\ io' = <<>> /\ readOk' = "none" /\ resp' = -1
  /\ UNCHANGED <<begun, session, rxFifo>>

\* DFPlayer::getCommandStatus
getCommandStatus ==
  /\ Call("getCommandStatus", <<>>)
  /\ ret' = CommandStatusOf(_dataBuffer)
  /\ io' = <<>> /\ readOk' = "none" /\ resp' = -1
  /\ UNCHANGED <<begun, session, _dataBuffer, rxFifo>>

Next ==
  \/ begin \/ setModel \/ setTimeout \/ setFeedback
  \/ setSource(FALSE) \/ playTrack(FALSE) \/ next(FALSE) \/ previous(FALSE) \/ pause(FALSE) \/ resume(FALSE) \/ stop(FALSE)
  \/ playFolder(FALSE) \/ playMP3Folder(FALSE) \/ play3000Folder(FALSE) \/ playAdvertFolder(FALSE)
  \/ playAdvertFolderN(FALSE) \/ stopAdvertFolder(FALSE)
  \/ setVolume(FALSE) \/ volumeUp(FALSE) \/ volumeDown(FALSE) \/ enableDAC(FALSE) \/ setDACGain(FALSE) \/ setEQ(FALSE)
  \/ repeatTrack(FALSE) \/ repeatCurrentTrack(FALSE) \/ repeatAll(FALSE) \/ repeatFolder(FALSE) \/ randomAll(FALSE)
  \/ sleep(FALSE) \/ wakeup(FALSE) \/ enableStandby(FALSE) \/ reset(FALSE)
  \/ getStatus(FALSE) \/ getVolume(FALSE) \/ getEQ(FALSE) \/ getPlayMode(FALSE) \/ getVersion(FALSE)
  \/ getTotalTracksSD(FALSE) \/ getTotalTracksUSB(FALSE) \/ getTotalTracksNORFlash(FALSE)
  \/ getTrackSD(FALSE) \/ getTrackUSB(FALSE) \/ getTrackNORFlash(FALSE)
  \/ getTotalTracksFolder(FALSE) \/ getTotalFolders(FALSE) \/ getCommandStatus

Spec == Init /\ [][Next]_vars

---------------------------------------------------------------------------
(* CallSpec: a session that begin() has just configured makes one call,    *)
(* with arguments and a reply drawn from the wide samples, and then calls  *)
(* getCommandStatus() or, after a query, getVolume().                      *)

CallInit ==
  /\ begun = TRUE
  /\ \E threshold \in TimeoutSamples, moduleType \in DFPLAYER_MODULE_TYPE,
        feedback \in BOOLEAN, bootDelay \in BOOLEAN :
       /\ _threshold = threshold
       /\ _ack = feedback
       /\ _moduleType = moduleType
       /\ args = <<threshold, moduleType, BoolToInt(feedback), BoolToInt(bootDelay)>>
       /\ io = IF bootDelay THEN <<Ev("delay", <<>>, DFPLAYER_BOOT_DELAY)>> ELSE <<>>
  /\ _dataBuffer \in InitBuffers
  /\ lastOp = "begin"
  /\ readOk = "none"
  /\ resp = -1
  /\ ret = -1
  /\ calls = 1
  /\ rxFifo \in InitFifos
  /\ NoThreads

\* no call has followed begin()
FirstCall == lastOp = "begin"

\* the call that returned last is a query
AfterQuery ==
  lastOp \in {"getStatus", "getVolume", "getEQ", "getPlayMode", "getVersion",
              "getTotalTracksSD", "getTotalTracksUSB", "getTotalTracksNORFlash",
              "getTrackSD", "getTrackUSB", "getTrackNORFlash",
              "getTotalTracksFolder", "getTotalFolders"}

CallNext ==
  \/ FirstCall /\ setSource(TRUE)
  \/ FirstCall /\ playTrack(TRUE)
  \/ FirstCall /\ next(TRUE)
  \/ FirstCall /\ previous(TRUE)
  \/ FirstCall /\ pause(TRUE)
  \/ FirstCall /\ resume(TRUE)
  \/ FirstCall /\ stop(TRUE)
  \/ FirstCall /\ playFolder(TRUE)
  \/ FirstCall /\ playMP3Folder(TRUE)
  \/ FirstCall /\ play3000Folder(TRUE)
  \/ FirstCall /\ playAdvertFolder(TRUE)
  \/ FirstCall /\ playAdvertFolderN(TRUE)
  \/ FirstCall /\ stopAdvertFolder(TRUE)
  \/ FirstCall /\ setVolume(TRUE)
  \/ FirstCall /\ volumeUp(TRUE)
  \/ FirstCall /\ volumeDown(TRUE)
  \/ FirstCall /\ enableDAC(TRUE)
  \/ FirstCall /\ setDACGain(TRUE)
  \/ FirstCall /\ setEQ(TRUE)
  \/ FirstCall /\ repeatTrack(TRUE)
  \/ FirstCall /\ repeatCurrentTrack(TRUE)
  \/ FirstCall /\ repeatAll(TRUE)
  \/ FirstCall /\ repeatFolder(TRUE)
  \/ FirstCall /\ randomAll(TRUE)
  \/ FirstCall /\ sleep(TRUE)
  \/ FirstCall /\ wakeup(TRUE)
  \/ FirstCall /\ enableStandby(TRUE)
  \/ FirstCall /\ reset(TRUE)
  \/ FirstCall /\ getStatus(TRUE)
  \/ FirstCall /\ getVolume(TRUE)
  \/ FirstCall /\ getEQ(TRUE)
  \/ FirstCall /\ getPlayMode(TRUE)
  \/ FirstCall /\ getVersion(TRUE)
  \/ FirstCall /\ getTotalTracksSD(TRUE)
  \/ FirstCall /\ getTotalTracksUSB(TRUE)
  \/ FirstCall /\ getTotalTracksNORFlash(TRUE)
  \/ FirstCall /\ getTrackSD(TRUE)
  \/ FirstCall /\ getTrackUSB(TRUE)
  \/ FirstCall /\ getTrackNORFlash(TRUE)
  \/ FirstCall /\ getTotalTracksFolder(TRUE)
  \/ FirstCall /\ getTotalFolders(TRUE)
  \/ ~FirstCall /\ getCommandStatus
  \/ AfterQuery /\ getVolume(FALSE)

CallSpec == CallInit /\ [][CallNext]_vars

---------------------------------------------------------------------------
(* Properties of the public methods.                                       *)

\* 7E FF 06 06 00 00 14 FF D4 EF
VolumeFrameStated == <<126, 255, 6, 6, 0, 0, 20, 255, 212, 239>>

\* 7E FF 06 06 00 00 14 FE E1 EF
VolumeFrameSent == <<126, 255, 6, 6, 0, 0, 20, 254, 225, 239>>

\* setVolume(20) has returned with a 10-byte module type of the standard
\* checksum and feedback off
VolumeCall ==
  /\ lastOp = "setVolume"
  /\ args = <<20>>
  /\ _moduleType \in {DFPLAYER_MINI, DFPLAYER_HW_247A}
  /\ ~_ack

\* C3 as the specification states it: with the standard module type and
\* feedback off, setVolume(20) writes exactly the 10 bytes
\* 7E FF 06 06 00 00 14 FF D4 EF.
C3_VolumeFrameStated ==
  VolumeCall => (Len(Written(io)) = 1 /\ Sent = VolumeFrameStated)

\* C3 amended: with the standard module type and feedback off,
\* setVolume(20) writes exactly the 10 bytes 7E FF 06 06 00 00 14 FE E1 EF,
\* whose bytes 7 and 8 are (0 - (0xFF + 0x06 + 0x06 + 0x14)) mod 2^16.
C3_VolumeFrameSent ==
  VolumeCall => (Len(Written(io)) = 1 /\ Sent = VolumeFrameSent)

C3_Witness ==
  /\ VolumeCall
  /\ _moduleType = DFPLAYER_MINI
  /\ Sent = VolumeFrameSent
  /\ SumBytes(Sent) = (0 - (255 + 6 + 6 + 20)) % 65536

\* the command code of the method that returned last, from the method's
\* name and arguments
CommandOfCall ==
  CASE lastOp = "setSource"           -> DFPLAYER_SET_PLAY_SRC
    [] lastOp = "playTrack"           -> DFPLAYER_PLAY_TRACK
    [] lastOp = "next"                -> DFPLAYER_PLAY_NEXT
    [] lastOp = "previous"            -> DFPLAYER_PLAY_PREV
    [] lastOp = "pause"               -> DFPLAYER_PAUSE
    [] lastOp = "resume"              -> DFPLAYER_RESUME_PLAYBACK
    [] lastOp = "stop"                -> DFPLAYER_STOP_PLAYBACK
    [] lastOp = "playFolder"          -> DFPLAYER_PLAY_FOLDER
    [] lastOp = "playMP3Folder"       -> DFPLAYER_PLAY_MP3_FOLDER
    [] lastOp = "play3000Folder"      -> DFPLAYER_PLAY_3000_FOLDER
    [] lastOp = "playAdvertFolder"    -> DFPLAYER_PLAY_ADVERT_FOLDER
    [] lastOp = "playAdvertFolderN"   -> DFPLAYER_PLAY_ADVERT_FOLDER_N
    [] lastOp = "stopAdvertFolder"    -> DFPLAYER_STOP_ADVERT_FOLDER
    [] lastOp = "setVolume"           -> DFPLAYER_SET_VOL
    [] lastOp = "volumeUp"            -> DFPLAYER_SET_VOL_UP
    [] lastOp = "volumeDown"          -> DFPLAYER_SET_VOL_DOWN
    [] lastOp = "enableDAC"           -> DFPLAYER_SET_DAC
    [] lastOp = "setDACGain"          -> DFPLAYER_SET_DAC_GAIN
    [] lastOp = "setEQ"               -> DFPLAYER_SET_EQ
    [] lastOp = "repeatTrack"         -> DFPLAYER_LOOP_TRACK
    [] lastOp = "repeatCurrentTrack"  -> DFPLAYER_LOOP_CURRENT_TRACK
    [] lastOp = "repeatAll"           -> DFPLAYER_REPEAT_ALL
    [] lastOp = "repeatFolder"        -> DFPLAYER_REPEAT_FOLDER
    [] lastOp = "randomAll"           -> DFPLAYER_RANDOM_ALL_FILES
    [] lastOp = "sleep"               -> DFPLAYER_SET_PLAY_SRC
    [] lastOp = "wakeup"              -> DFPLAYER_SET_PLAY_SRC
    [] lastOp = "enableStandby"       -> IF args[1] = 1
                                         THEN DFPLAYER_SET_STANDBY_MODE
                                         ELSE DFPLAYER_SET_PLAY_SRC
    [] lastOp = "reset"               -> DFPLAYER_RESET
    [] lastOp = "getStatus"           -> DFPLAYER_GET_STATUS
    [] lastOp = "getVolume"           -> DFPLAYER_GET_VOL
    [] lastOp = "getEQ"               -> DFPLAYER_GET_EQ
    [] lastOp = "getPlayMode"         -> DFPLAYER_GET_PLAY_MODE
    [] lastOp = "getVersion"          -> DFPLAYER_GET_VERSION
    [] lastOp = "getTotalTracksSD"    -> DFPLAYER_GET_QNT_TF_FILES
    [] lastOp = "getTotalTracksUSB"   -> DFPLAYER_GET_QNT_USB_FILES
    [] lastOp = "getTotalTracksNORFlash" -> DFPLAYER_GET_QNT_FLASH_FILES
    [] lastOp = "getTrackSD"          -> DFPLAYER_GET_TF_TRACK
    [] lastOp = "getTrackUSB"         -> DFPLAYER_GET_USB_TRACK
    [] lastOp = "getTrackNORFlash"    -> DFPLAYER_GET_FLASH_TRACK
    [] lastOp = "getTotalTracksFolder" -> DFPLAYER_GET_QNT_FOLDER_FILES
    [] lastOp = "getTotalFolders"     -> DFPLAYER_GET_QNT_FOLDERS
    [] OTHER                          -> -1

\* the frame f has the fixed bytes, the command of the call and the length
\* and end byte of the module type
FrameOfCall(f) ==
  /\ Len(f) >= 4
  /\ B(f, 0) = 126
  /\ B(f, 1) = 255
  /\ B(f, 2) = 6
  /\ B(f, 3) = CommandOfCall
  /\ IF _moduleType = DFPLAYER_NO_CHECKSUM
     THEN Len(f) = 8 /\ B(f, 7) = 239
     ELSE Len(f) = 10 /\ B(f, 9) = 239

\* C4: after any sequence of setModel, setFeedback, setTimeout and other
\* calls, every frame the last call wrote has bytes 0, 1, 2 equal to 7E, FF,
\* 06, byte 3 equal to the command code of the call, and is exactly 10
\* bytes ending in EF at index 9 with a checksum module type, exactly 8
\* bytes ending in EF at index 7 with DFPLAYER_NO_CHECKSUM.
C4_FrameShape ==
  \A i \in 1..Len(Written(io)) : FrameOfCall(Written(io)[i].bytes)

\* a third call, after begin() and one more call, writes an 8-byte frame
\* into a buffer that was not zero
C4_Witness ==
  /\ calls = 3
  /\ lastOp = "playTrack"
  /\ _moduleType = DFPLAYER_NO_CHECKSUM
  /\ Len(Written(io)) = 1
  /\ Sent = <<126, 255, 6, 3, BoolToInt(_ack), 39, 15, 239>>
  /\ B(_dataBuffer, 8) # 0

\* the queries that return the number read
NumericQueries ==
  {"getVolume", "getEQ", "getPlayMode", "getVersion", "getTotalTracksSD",
   "getTotalTracksUSB", "getTotalTracksNORFlash", "getTrackSD", "getTrackUSB",
   "getTrackNORFlash", "getTotalTracksFolder", "getTotalFolders"}

\* no reply to the query of the last call was read: fewer than 10 bytes, a
\* wrong fixed byte, or byte 3 another command
NoReply ==
  \/ ~RxShapeOk(Received)
  \/ B(Received, 3) # CommandOfCall

\* C9: a numeric query returns 0 when fewer than 10 bytes arrive before
\* the timeout, when a fixed byte of the reply is wrong, and when byte 3 of
\* a well-formed reply is not the requested command; never a value taken
\* from those bytes.
C9_QueryFailureReturnsZero ==
  (lastOp \in NumericQueries /\ NoReply) => (ret = 0 /\ resp = 0)

\* a well-formed reply to another command with payload 0x0201 arrived
C9_Witness ==
  /\ lastOp = "getTrackSD"
  /\ RxShapeOk(Received)
  /\ B(Received, 3) # DFPLAYER_GET_TF_TRACK
  /\ B(Received, 5) = 2
  /\ B(Received, 6) = 1
  /\ ret = 0

\* C10 as the specification states it: getStatus returns 4 whenever no
\* valid matching reply is read, for every module type.
C10_StatusErrorAlways4 ==
  (lastOp = "getStatus" /\ NoReply) => ret = 4

\* C10 amended: when no valid matching reply is read, getStatus returns 4
\* for every module type except DFPLAYER_HW_247A, for which it returns 0
\* (stop).
C10_StatusErrorByModel ==
  (lastOp = "getStatus" /\ NoReply)
    => ret = IF _moduleType = DFPLAYER_HW_247A THEN 0 ELSE 4

\* nothing arrived before the timeout with DFPLAYER_HW_247A
C10_Witness ==
  /\ lastOp = "getStatus"
  /\ _moduleType = DFPLAYER_HW_247A
  /\ Received = <<>>
  /\ readOk = "false"
  /\ ret = 0

\* C11 as the specification states it: for a well-formed reply
\* 7E FF 06 42 00 yy xx .. .. EF to the status query, getStatus returns 0
\* for xx=00, 1 for xx=01 and 2 for xx=02 both when yy=01 and when yy=02,
\* and returns 3 for yy=00, xx=02.
C11_StatusDecoded ==
  (lastOp = "getStatus" /\ RxShapeOk(Received)
     /\ B(Received, 3) = DFPLAYER_GET_STATUS)
    => /\ (B(Received, 5) \in {1, 2} /\ B(Received, 6) \in {0, 1, 2})
            => ret = B(Received, 6)
       /\ (B(Received, 5) = 0 /\ B(Received, 6) = 2) => ret = 3

\* the methods that clamp their first argument and send it as the data
\* bytes, and the bounds of each
ClampedCalls ==
  {"playTrack", "playMP3Folder", "playAdvertFolder", "repeatTrack",
   "play3000Folder", "setVolume", "setEQ", "setDACGain", "setSource"}

ClampLow ==
  IF lastOp \in {"setVolume", "setEQ", "setDACGain"} THEN 0 ELSE 1

ClampHigh ==
  CASE lastOp = "play3000Folder" -> 3000
    [] lastOp = "setVolume"      -> 30
    [] lastOp = "setEQ"          -> 5
    [] lastOp = "setDACGain"     -> 31
    [] lastOp = "setSource"      -> 6
    [] OTHER                     -> 9999

\* the first argument of the last call moved to the nearest bound
Saturated ==
  IF args[1] < ClampLow THEN ClampLow
  ELSE IF args[1] > ClampHigh THEN ClampHigh ELSE args[1]

\* the frame the last call writes when its first argument is v: the one
\* setDACGain writes has the enable argument in byte 5
FrameOfArgument(v) ==
  Written(_sendData([buf |-> Zeros, io |-> <<>>, rxq |-> <<>>], CommandOfCall,
                    IF lastOp = "setDACGain" THEN args[2] ELSE v \div 256,
                    v % 256).io)[1].bytes

\* C12 as the specification states it: each clamped method writes the
\* frame it writes for its argument moved to the nearest bound of the legal
\* range, and bytes 5 and 6 of the frame are, big-endian, that value.
C12_ClampedValueInData ==
  lastOp \in ClampedCalls
    => /\ Len(Written(io)) = 1
       /\ Sent = FrameOfArgument(Saturated)
       /\ B(Sent, 5) * 256 + B(Sent, 6) = Saturated

\* C12 amended: each clamped method writes the frame it writes for its
\* argument moved to the nearest bound of the legal range; bytes 5 and 6
\* are, big-endian, that value, except for setDACGain, where byte 6 is that
\* value and byte 5 is the enable argument.
C12_ClampedFrame ==
  lastOp \in ClampedCalls
    => /\ Len(Written(io)) = 1
       /\ Sent = FrameOfArgument(Saturated)
       /\ IF lastOp = "setDACGain"
          THEN B(Sent, 5) = args[2] /\ B(Sent, 6) = Saturated
          ELSE B(Sent, 5) * 256 + B(Sent, 6) = Saturated

\* setDACGain(32, true) has written gain 31 with the enable byte set
C12_Witness ==
  /\ lastOp = "setDACGain"
  /\ args = <<32, 1>>
  /\ B(Sent, 5) = 1
  /\ B(Sent, 6) = 31
  /\ Sent = FrameOfArgument(31)

\* the playback and control methods: the public methods that are neither
\* configuration calls nor queries
ControlCalls ==
  {"setSource", "playTrack", "next", "previous", "pause", "resume", "stop",
   "playFolder", "playMP3Folder", "play3000Folder", "playAdvertFolder",
   "playAdvertFolderN", "stopAdvertFolder", "setVolume", "volumeUp",
   "volumeDown", "enableDAC", "setDACGain", "setEQ", "repeatTrack",
   "repeatCurrentTrack", "repeatAll", "repeatFolder", "randomAll", "sleep",
   "wakeup", "enableStandby", "reset"}

\* the last call was wakeup(6) or enableStandby(false, 6)
WakeupToSleep ==
  \/ lastOp = "wakeup" /\ args[1] = 6
  \/ lastOp = "enableStandby" /\ args[1] = 0 /\ args[2] = 6

\* C13 as the specification states it: every call of a playback or control
\* method, for every argument value, writes exactly one frame.
C13_AlwaysOneFrame ==
  lastOp \in ControlCalls => Len(Written(io)) = 1

\* C13 amended: every call of a playback or control method, for every
\* argument value, writes exactly one frame, except wakeup(6) and
\* enableStandby(false, 6), which write nothing.
C13_OneFrameUnlessSleepSource ==
  lastOp \in ControlCalls
    => Len(Written(io)) = IF WakeupToSleep THEN 0 ELSE 1

\* enableStandby(false, 6) has returned without a call on the stream
C13_Witness ==
  /\ lastOp = "enableStandby"
  /\ args = <<0, 6>>
  /\ io = <<>>

\* the frame f is a set-source frame with Sleep as the source
SleepSourceFrame(f) ==
  B(f, 3) = DFPLAYER_SET_PLAY_SRC /\ B(f, 6) = 6

\* C14 as the specification states it: wakeup(source) and
\* enableStandby(false, source) never write a set-source frame whose
\* data-low byte is 6 (Sleep), for any source.
C14_WakeupNeverSendsSleep ==
  (lastOp = "wakeup" \/ (lastOp = "enableStandby" /\ args[1] = 0))
    => \A i \in 1..Len(Written(io)) : ~SleepSourceFrame(Written(io)[i].bytes)

\* how many calls _sendData makes: the write and, for DFPLAYER_HW_247A,
\* delay(_threshold)
SendLength == IF _moduleType = DFPLAYER_HW_247A THEN 2 ELSE 1

\* the last call wrote its frame and returned without a further delay
ReturnedAfterSend ==
  /\ Len(io) = SendLength
  /\ io[1].kind = "write"
  /\ _moduleType = DFPLAYER_HW_247A => io[2] = Ev("delay", <<>>, _threshold)

\* the last call wrote its frame and then waited ms before it returned
ReturnedAfterDelay(ms) ==
  /\ Len(io) = SendLength + 1
  /\ io[1].kind = "write"
  /\ _moduleType = DFPLAYER_HW_247A => io[2] = Ev("delay", <<>>, _threshold)
  /\ io[Len(io)] = Ev("delay", <<>>, ms)

\* the last call was enableStandby(true, source)
StandbyOn == lastOp = "enableStandby" /\ args[1] = 1

\* C15 as the specification states it: setSource (any source), sleep,
\* enableStandby(true) and reset return only after a settle delay that
\* follows the frame: 200 ms for the source changes, 3000 ms for reset.
C15_SettleDelayAlways ==
  /\ (lastOp \in {"setSource", "sleep"} \/ StandbyOn) => ReturnedAfterDelay(200)
  /\ lastOp = "reset" => ReturnedAfterDelay(3000)

\* C15 amended: setSource returns after a delay of 200 ms that follows the
\* frame when the saturated source is not 6, reset after a delay of 3000 ms;
\* setSource with a source of 6 or more, sleep and enableStandby(true)
\* return as soon as the frame is sent.
C15_SettleDelayUnlessSleep ==
  /\ lastOp = "setSource"
       => IF args[1] < 6 THEN ReturnedAfterDelay(200) ELSE ReturnedAfterSend
  /\ (lastOp = "sleep" \/ StandbyOn) => ReturnedAfterSend
  /\ lastOp = "reset" => ReturnedAfterDelay(3000)

\* sleep() has returned with the frame written and no delay
C15_Witness ==
  /\ lastOp = "sleep"
  /\ _moduleType = DFPLAYER_MINI
  /\ Len(io) = 1
  /\ SleepSourceFrame(Sent)

\* the queries
QueryCalls == NumericQueries \cup {"getStatus"}

\* where in io the first call of the kind is
Pos(kind) == CHOOSE i \in 1..Len(io) : io[i].kind = kind

\* the bytes that arrived after the flush of the last call
ArrivedAfterFlush ==
  LET late == SelectSeq(SubSeq(io, Pos("flush") + 1, Len(io)),
                        LAMBDA e : e.kind = "arrived")
  IN  IF late = <<>> THEN <<>> ELSE late[1].bytes

\* the bytes the flush of the last call dropped
Dropped == EventsOf(io, "flush")[1].bytes

\* C16: in every query flush() is called once, after the request frame is
\* written and before readBytes(), and the bytes readBytes() obtains are
\* the first bytes that arrived after the flush: none of the bytes that were
\* unread in the stream before is among them.
C16_FlushBeforeRead ==
  lastOp \in QueryCalls
    => /\ Len(EventsOf(io, "flush")) = 1
       /\ Pos("write") < Pos("flush")
       /\ Pos("flush") < Pos("readBytes")
       /\ Received = Take(ArrivedAfterFlush,
                          ReadCount(ArrivedAfterFlush, DFPLAYER_UART_FRAME_SIZE))

\* the frame the module sent after its boot was unread when getVolume()
\* was called; the reply to the query is what it decoded
C16_Witness ==
  /\ lastOp = "getVolume"
  /\ Dropped = ReadyFrame
  /\ Received = RxFrame(DFPLAYER_GET_VOL, 0, 0, 30, <<255, 194>>)
  /\ ret = 30

\* the last call wrote one frame and then read once
OneWriteThenOneRead ==
  /\ Len(Written(io)) = 1
  /\ Len(EventsOf(io, "readBytes")) = 1
  /\ Pos("write") < Pos("readBytes")

\* C17 as the specification states it: every query makes exactly one write
\* followed by exactly one read, also after a failed, incomplete or
\* mismatched reply; every playback or control method makes one write and
\* no read.
C17_OneWriteOneRead ==
  /\ lastOp \in QueryCalls => OneWriteThenOneRead
  /\ lastOp \in ControlCalls
       => (Len(Written(io)) = 1 /\ EventsOf(io, "readBytes") = <<>>)

\* C17 amended: every query makes exactly one write followed by exactly one
\* read, also after a failed, incomplete or mismatched reply; every
\* playback or control method makes no read and one write, except
\* wakeup(6) and enableStandby(false, 6), which make no write.
C17_OneWriteOneReadUnlessSleepSource ==
  /\ lastOp \in QueryCalls => OneWriteThenOneRead
  /\ lastOp \in ControlCalls
       => /\ Len(Written(io)) = IF WakeupToSleep THEN 0 ELSE 1
          /\ EventsOf(io, "readBytes") = <<>>

\* a query has returned after a reply of 4 bytes
C17_Witness ==
  /\ lastOp = "getTrackSD"
  /\ Len(Received) = 4
  /\ readOk = "false"
  /\ OneWriteThenOneRead

----------------------------------------------------------------------------
(* C18: the value of getCommandStatus for every buffer content            *)

\* the values of byte 3 that getCommandStatus tells apart
StatusBytes == {64, 65, 61, 63}

\* C18: getCommandStatus returns byte 6 of _dataBuffer when byte 3 is 0x40,
\* 0x0B when it is 0x41, 0x0C when it is 0x3D, 0x0D when it is 0x3F, and
\* 0x00 for every other byte 3
C18_CommandStatusMapping ==
  lastOp = "getCommandStatus" =>
    /\ (_dataBuffer[4] = 64 => ret = _dataBuffer[7])
    /\ (_dataBuffer[4] = 65 => ret = 11)
    /\ (_dataBuffer[4] = 61 => ret = 12)
    /\ (_dataBuffer[4] = 63 => ret = 13)
    /\ (_dataBuffer[4] \notin StatusBytes => ret = 0)

\* getCommandStatus has returned the error value 6 of 7E FF 06 40 00 00 06 ..
C18_Witness ==
  /\ lastOp = "getCommandStatus"
  /\ _dataBuffer[4] = 64
  /\ _dataBuffer[7] = 6
  /\ _dataBuffer[6] # 6
  /\ ret = 6

----------------------------------------------------------------------------
(* C19: getCommandStatus touches neither the stream nor the object         *)

\* C19: a call of getCommandStatus performs no transport operation, leaves
\* the stream, the frame buffer, the module type, the feedback flag and the
\* timeout as they were, and returns what the call of getCommandStatus right
\* before it returned
C19_CommandStatusPure ==
  [][lastOp' = "getCommandStatus" =>
       /\ io' = <<>>
       /\ rxFifo' = rxFifo
       /\ _dataBuffer' = _dataBuffer
       /\ _moduleType' = _moduleType
       /\ _ack' = _ack
       /\ _threshold' = _threshold
       /\ (lastOp = "getCommandStatus" => ret' = ret)]_vars

\* getCommandStatus has returned the error value 6 of the reply
\* 7E FF 06 40 00 00 06 FE B5 EF that the query before it read
C19_Witness ==
  /\ lastOp = "getCommandStatus"
  /\ begun
  /\ io = <<>>
  /\ _dataBuffer = ErrorFrame
  /\ ret = 6

----------------------------------------------------------------------------
(* C20: the status after an action the module has answered                 *)

\* the frame that arrived last and was never read, <<>> when there is none
LastUnread ==
  IF Len(rxFifo) < 10 THEN <<>>
  ELSE SubSeq(rxFifo, Len(rxFifo) - 9, Len(rxFifo))

\* the call before getCommandStatus was an action sent with feedback asked
\* for: the buffer still holds the frame the action sent
AfterAction ==
  /\ lastOp = "getCommandStatus"
  /\ _ack
  /\ _dataBuffer[4] \notin {63, 64, 65, 66, 67, 68, 69, 70, 71, 72, 75, 76, 77, 78, 79}
  /\ _dataBuffer[1] = 126
  /\ _dataBuffer[5] = 1

\* C20: with feedback enabled, getCommandStatus after an action that the
\* module answered with the accepted frame (byte 3 = 0x41) returns 0x0B, and
\* after an action that the module answered with an error frame
\* (byte 3 = 0x40) returns byte 6 of that frame
C20_StatusAfterAction ==
  AfterAction =>
    /\ (LastUnread # <<>> /\ LastUnread[4] = 65 => ret = 11)
    /\ (LastUnread # <<>> /\ LastUnread[4] = 64 => ret = LastUnread[7])

----------------------------------------------------------------------------
(* StepSpec: the callers of Callers each call one method of the same       *)
(* object, and the statements of _sendData, _readData and _getResponse     *)
(* run one at a time, in any interleaving, while the module delivers its   *)
(* replies and the time of the read timeout passes.  What a caller wrote  *)
(* is kept in its locals (job[c].sent); io, the log of the single owner's  *)
(* last call, stays empty.                                                 *)

\* how many steps of time the timeout of readBytes lasts
TimeoutTicks == 1

\* the calls a caller may make: caller 1 playTrack(258) or getVolume(),
\* every other caller playTrack(258)
StepJobs(c) ==
  {[NoJob EXCEPT !.command = DFPLAYER_PLAY_TRACK, !.dataMSB = 1, !.dataLSB = 2]}
    \cup (IF c = 1
          THEN {[NoJob EXCEPT !.command = DFPLAYER_GET_VOL, !.query = TRUE]}
          ELSE {})

\* what the module sends back for the frame f it received: nothing, or for
\* a query the reply with the value 0x0015, or for a command sent with
\* feedback the acknowledgement
StepReplies(f) ==
  IF ~FrameValid(f \o <<DFPLAYER_UART_END_BYTE, DFPLAYER_UART_END_BYTE>>) THEN {<<>>}
  ELSE IF f[4] \in QueryCommands
       THEN {<<>>, RxFrame(f[4], 0, 0, 21, <<254, 163>>)}
  ELSE IF f[5] = 1 THEN {<<>>, OkFrame}
  ELSE {<<>>}

StepInit ==
  /\ begun = TRUE
  /\ _threshold = 100
  /\ _ack \in BOOLEAN
  /\ _moduleType \in DFPLAYER_MODULE_TYPE
  /\ _dataBuffer = Zeros
  /\ lastOp = "begin"
  /\ args = <<>>
  /\ io = <<>>
  /\ readOk = "none"
  /\ resp = -1
  /\ ret = -1
  /\ calls = 1
  /\ rxFifo = <<>>
  /\ NoThreads

\* the caller c is inside a method
Active(c) == pc[c] \notin {"idle", "done"}

\* the caller c moves to position p with the locals j, and every other
\* caller that is inside a method has seen another caller run
Goto(c, p, j) ==
  /\ pc' = [pc EXCEPT ![c] = p]
  /\ job' = [d \in Callers |->
               IF d = c THEN j
               ELSE IF Active(d) THEN [job[d] EXCEPT !.raced = TRUE]
               ELSE job[d]]

\* c calls a method: playTrack or getVolume
StartCall(c) ==
  /\ pc[c] = "idle"
  /\ \E j \in StepJobs(c) : Goto(c, "head", j)
  /\ UNCHANGED <<begun, session, _dataBuffer, lastOp, args, io, readOk,
                 resp, ret, calls, rxFifo, wire>>

\* _sendData: _dataBuffer[0] .. _dataBuffer[6] are stored
StoreHeader(c) ==
  /\ pc[c] = "head"
  /\ _dataBuffer' = FillHeader(_dataBuffer, job[c].command, job[c].dataMSB,
                               job[c].dataLSB)
  /\ Goto(c, "sum", job[c])
  /\ UNCHANGED <<begun, session, lastOp, args, io, readOk, resp, ret,
                 calls, rxFifo, wire>>

\* _sendData: the first switch computes checksum from the buffer
ComputeChecksum(c) ==
  /\ pc[c] = "sum"
  /\ Goto(c, "tail",
          IF HasChecksum(_moduleType)
          THEN [job[c] EXCEPT !.checksum = Checksum(_moduleType, _dataBuffer)]
          ELSE job[c])
  /\ UNCHANGED <<begun, session, _dataBuffer, lastOp, args, io, readOk,
                 resp, ret, calls, rxFifo, wire>>

\* StoreTail with the low byte of the checksum stored first
StoreTailLowFirst(buf, checksum) ==
  IF HasChecksum(_moduleType)
  THEN SubSeq(buf, 1, 7)
         \o <<ToUint8(checksum), ToUint8(checksum \div 256),
              DFPLAYER_UART_END_BYTE>>
  ELSE SubSeq(buf, 1, 7) \o <<DFPLAYER_UART_END_BYTE>> \o SubSeq(buf, 9, 10)

\* the buffer after the stores of the second switch of _sendData
StoreTail(buf, checksum) ==
  IF HasChecksum(_moduleType)
  THEN SubSeq(buf, 1, 7)
         \o <<ToUint8(checksum \div 256), ToUint8(checksum),
              DFPLAYER_UART_END_BYTE>>
  ELSE SubSeq(buf, 1, 7) \o <<DFPLAYER_UART_END_BYTE>> \o SubSeq(buf, 9, 10)

\* _sendData: the checksum and the end byte are stored
StoreChecksum(c) ==
  /\ pc[c] = "tail"
  /\ _dataBuffer' = StoreTail(_dataBuffer, job[c].checksum)
  /\ Goto(c, "write", job[c])
  /\ UNCHANGED <<begun, session, lastOp, args, io, readOk, resp, ret,
                 calls, rxFifo, wire>>

\* where a caller goes on after _sendData
AfterSend(j) == IF j.query THEN "clear" ELSE "done"

\* the number of bytes _sendData hands to write()
WriteLength ==
  IF HasChecksum(_moduleType)
  THEN DFPLAYER_UART_FRAME_SIZE ELSE DFPLAYER_UART_FRAME_SIZE - 2

\* _sendData: _serial->write(_dataBuffer, ...); the module receives the
\* frame and decides what it will send back
WriteFrame(c) ==
  /\ pc[c] = "write"
  /\ LET f == Take(_dataBuffer, WriteLength)
     IN         /\ \E reply \in StepReplies(f) : wire' = wire \o reply
         /\ Goto(c, IF _moduleType = DFPLAYER_HW_247A THEN "delay"
                    ELSE AfterSend(job[c]),
                 [job[c] EXCEPT !.sent = f])
  /\ UNCHANGED <<begun, session, _dataBuffer, lastOp, args, io, readOk, resp,
                 ret, calls, rxFifo>>

\* _sendData: delay(_threshold) for DFPLAYER_HW_247A
DelayAfterWrite(c) ==
  /\ pc[c] = "delay"
  /\ Goto(c, AfterSend(job[c]), job[c])
  /\ UNCHANGED <<begun, session, _dataBuffer, lastOp, args, io, readOk, resp,
                 ret, calls, rxFifo, wire>>

\* _readData: memset(_dataBuffer, 0x00, DFPLAYER_UART_FRAME_SIZE)
ClearBuffer(c) ==
  /\ pc[c] = "clear"
  /\ _dataBuffer' = Zeros
  /\ Goto(c, "flush", job[c])
  /\ UNCHANGED <<begun, session, lastOp, args, io, readOk, resp, ret,
                 calls, rxFifo, wire>>

\* _readData: _serial->flush()
FlushStream(c) ==
  /\ pc[c] = "flush"
  /\ rxFifo' = Flush(rxFifo)
  /\ Goto(c, "timeout", job[c])
  /\ UNCHANGED <<begun, session, _dataBuffer, lastOp, args, io, readOk, resp,
                 ret, calls, wire>>

\* _readData: _serial->setTimeout(_threshold); readBytes is entered
StartRead(c) ==
  /\ pc[c] = "timeout"
  /\ Goto(c, "read", [job[c] EXCEPT !.n = 0, !.left = TimeoutTicks])
  /\ UNCHANGED <<begun, session, _dataBuffer, lastOp, args, io, readOk, resp,
                 ret, calls, rxFifo, wire>>

\* a readBytes that waits for all its bytes however long it takes
TimedOutNever(j) == FALSE

\* the timeout of the readBytes of a caller with the locals j has expired
TimedOut(j) == j.left = 0

\* readBytes of c stores the bytes the stream holds, as far as it still
\* needs them, and returns when it has all of them
ReadSome(c) ==
  /\ pc[c] = "read"
  /\ rxFifo # <<>>
  /\ LET k == ReadCount(rxFifo, DFPLAYER_UART_FRAME_SIZE - job[c].n)
         n == job[c].n + k
     IN  /\ _dataBuffer' = SubSeq(_dataBuffer, 1, job[c].n) \o Take(rxFifo, k)
                             \o SubSeq(_dataBuffer, n + 1, DFPLAYER_UART_FRAME_SIZE)
         /\ rxFifo' = Drop(rxFifo, k)
                /\ Goto(c, IF n = DFPLAYER_UART_FRAME_SIZE THEN "check" ELSE "read",
                 [job[c] EXCEPT !.n = n])
  /\ UNCHANGED <<begun, session, lastOp, args, io, readOk, resp, ret, calls, wire>>

\* readBytes of c returns with fewer bytes than it was asked for
ReadTimeout(c) ==
  /\ pc[c] = "read"
  /\ rxFifo = <<>>
  /\ TimedOut(job[c])
  /\ Goto(c, "check", job[c])
  /\ UNCHANGED <<begun, session, _dataBuffer, lastOp, args, io, readOk,
                 resp, ret, calls, rxFifo, wire>>

\* the return of _readData and of _getResponse
CheckResponse(c) ==
  /\ pc[c] = "check"
  /\ Goto(c, "done",
          [job[c] EXCEPT !.value =
             IF /\ job[c].n = DFPLAYER_UART_FRAME_SIZE
                /\ FrameValid(_dataBuffer)
                /\ B(_dataBuffer, 3) = job[c].command
             THEN ToUint16(B(_dataBuffer, 5) * 256 + B(_dataBuffer, 6))
             ELSE 0])
  /\ UNCHANGED <<begun, session, _dataBuffer, lastOp, args, io, readOk,
                 resp, ret, calls, rxFifo, wire>>

\* the next statement of the caller c
Step(c) ==
  \/ StoreHeader(c) \/ ComputeChecksum(c) \/ StoreChecksum(c)
  \/ WriteFrame(c) \/ DelayAfterWrite(c)
  \/ ClearBuffer(c) \/ FlushStream(c) \/ StartRead(c)
  \/ ReadSome(c) \/ ReadTimeout(c) \/ CheckResponse(c)

\* time passes for the callers that wait in readBytes
Tick ==
  /\ \E c \in Callers : pc[c] = "read" /\ job[c].left > 0
  /\ job' = [c \in Callers |->
               IF pc[c] = "read" /\ job[c].left > 0
               THEN [job[c] EXCEPT !.left = @ - 1] ELSE job[c]]
  /\ UNCHANGED <<begun, session, _dataBuffer, lastOp, args, io, readOk,
                 resp, ret, calls, rxFifo, pc, wire>>

\* the module delivers the next bytes of what it sends: all of them, or
\* the first four
Deliver ==
  /\ wire # <<>>
  /\ \E k \in {Len(wire)} \cup (IF Len(wire) > 4 THEN {4} ELSE {}) :
       /\ rxFifo' = rxFifo \o Take(wire, k)
       /\ wire' = Drop(wire, k)
  /\ UNCHANGED <<begun, session, _dataBuffer, lastOp, args, io, readOk,
                 resp, ret, calls, pc, job>>

StepNext ==
  \/ \E c \in Callers : StartCall(c)
  \/ \E c \in Callers : StoreHeader(c)
  \/ \E c \in Callers : ComputeChecksum(c)
  \/ \E c \in Callers : StoreChecksum(c)
  \/ \E c \in Callers : WriteFrame(c)
  \/ \E c \in Callers : DelayAfterWrite(c)
  \/ \E c \in Callers : ClearBuffer(c)
  \/ \E c \in Callers : FlushStream(c)
  \/ \E c \in Callers : StartRead(c)
  \/ \E c \in Callers : ReadSome(c)
  \/ \E c \in Callers : ReadTimeout(c)
  \/ \E c \in Callers : CheckResponse(c)
  \/ Tick
  \/ Deliver

StepSpec == StepInit /\ [][StepNext]_vars

\* StepSpec in which a caller that can run its next statement does so in
\* the end, and time passes
StepLive ==
  /\ StepSpec
  /\ \A c \in Callers : WF_vars(Step(c))
  /\ WF_vars(Tick)

----------------------------------------------------------------------------
(* C21: every call returns                                                 *)

\* C21: a caller that is inside a method returns from it in the end, also
\* when the module sends nothing or only a part of a frame: readBytes ends
\* when its timeout has expired
C21_EveryCallReturns ==
  \A c \in Callers : Active(c) ~> pc[c] = "done"

\* getVolume has returned 0 after its readBytes timed out with only a part
\* of a frame stored
C21_Witness ==
  /\ pc[1] = "done"
  /\ job[1].query
  /\ job[1].n \in 1 .. 9
  /\ TimedOut(job[1])
  /\ wire # <<>>
  /\ job[1].value = 0

----------------------------------------------------------------------------
(* C22: callers that share the object without mutual exclusion             *)

\* the bytes _sendData writes for the arguments of j when nothing else
\* runs during the call
Encoding(j) ==
  Written(_sendData([buf |-> Zeros, io |-> <<>>, rxq |-> <<>>],
                    j.command, j.dataMSB, j.dataLSB).io)[1].bytes

\* c is between the stores of the header and the write of its frame
Sending(c) == pc[c] \in {"sum", "tail", "write"}

\* bytes 0 .. 6 of the buffer are what the _sendData of c has stored
HeaderKept(c) ==
  SubSeq(_dataBuffer, 1, 7)
    = SubSeq(FillHeader(Zeros, job[c].command, job[c].dataMSB, job[c].dataLSB), 1, 7)

\* C22: as long as no other caller has run during the call of c, the frame
\* c writes is the encoding of the arguments of c, and the header c has
\* stored stays in the buffer until c has written it; a frame that encodes
\* no caller's arguments and a header cleared before its write come about
\* only when the calls interleave
C22_SerialisedFramesIntact ==
  \A c \in Callers :
    ~job[c].raced =>
      /\ (job[c].sent # <<>> => job[c].sent = Encoding(job[c]))
      /\ (Sending(c) => HeaderKept(c))

\* the two callers have interleaved: one has written a frame that is the
\* encoding of neither caller's arguments, and the buffer of the other,
\* which is still sending, has been overwritten
C22_Witness ==
  \E c, d \in Callers :
    /\ job[c].sent # <<>>
    /\ job[c].sent # Encoding(job[c])
    /\ job[c].sent # Encoding(job[d])
    /\ c # d
    /\ Sending(d)
    /\ ~HeaderKept(d)

----------------------------------------------------------------------------
(* C23: the bytes written do not depend on the history of the session      *)

\* the bytes _sendData writes for (command, dataMSB, dataLSB) under the
\* feedback flag and module type of the session when the buffer held
\* nothing but zeros before
FreshFrame(command, dataMSB, dataLSB) ==
  Written(_sendData([buf |-> Zeros, io |-> <<>>, rxq |-> <<>>],
                    command, dataMSB, dataLSB).io)[1].bytes

\* C23: whatever the session has sent, received and left in its buffer
\* before, the bytes a method writes are those a session with an all-zero
\* buffer writes for the same command, data bytes, feedback flag and module
\* type
C23_WrittenBytesIgnoreHistory ==
  \A i \in 1 .. Len(Written(io)) :
    LET f == Written(io)[i].bytes
    IN  f = FreshFrame(f[4], f[6], f[7])

\* an 8-byte frame has been written from a buffer whose bytes 8 and 9 still
\* hold what an earlier call left there
C23_Witness ==
  /\ _moduleType = DFPLAYER_NO_CHECKSUM
  /\ lastOp = "playTrack"
  /\ Written(io) # <<>>
  /\ Len(Written(io)[1].bytes) = 8
  /\ _dataBuffer[9] # 0
  /\ _dataBuffer[10] = DFPLAYER_UART_END_BYTE

----------------------------------------------------------------------------
(* C24: the three setters                                                  *)

\* the call that returns in this step touches neither the stream nor the
\* frame buffer
NoTransport ==
  /\ io' = <<>>
  /\ rxFifo' = rxFifo
  /\ _dataBuffer' = _dataBuffer

\* C24: setModel stores its argument in _moduleType, setTimeout in
\* _threshold and setFeedback in _ack; each leaves the two other fields and
\* the frame buffer as they were and calls nothing on the stream
C24_SettersChangeOwnField ==
  [][/\ lastOp' = "setModel" =>
          /\ _moduleType' = args'[1]
          /\ UNCHANGED <<_threshold, _ack>>
          /\ NoTransport
     /\ lastOp' = "setTimeout" =>
          /\ _threshold' = args'[1]
          /\ UNCHANGED <<_moduleType, _ack>>
          /\ NoTransport
     /\ lastOp' = "setFeedback" =>
          /\ _ack' = (args'[1] = 1)
          /\ UNCHANGED <<_moduleType, _threshold>>
          /\ NoTransport]_vars

\* setModel(DFPLAYER_NO_CHECKSUM) has returned in a session that has
\* feedback on, has sent a frame before and has an answer unread
C24_Witness ==
  /\ lastOp = "setModel"
  /\ args = <<DFPLAYER_NO_CHECKSUM>>
  /\ _moduleType = DFPLAYER_NO_CHECKSUM
  /\ _ack
  /\ _dataBuffer[1] = DFPLAYER_UART_START_BYTE
  /\ _dataBuffer[10] = DFPLAYER_UART_END_BYTE
  /\ rxFifo # <<>>
  /\ io = <<>>

----------------------------------------------------------------------------
(* C25: frames and reads follow the configuration in force                 *)

\* the methods that configure the session
ConfigCalls == {"begin", "setModel", "setTimeout", "setFeedback"}

\* the frame f has the feedback byte, the length and the checksum that
\* _sendData gives it under the feedback flag ack and the module type m
FrameFollows(f, ack, m) ==
  /\ f[5] \in {0, 1}
  /\ f[5] = BoolToInt(ack)
  /\ Len(f) = (IF m = DFPLAYER_NO_CHECKSUM THEN 8 ELSE 10)
  /\ f[Len(f)] = DFPLAYER_UART_END_BYTE
  /\ m # DFPLAYER_NO_CHECKSUM =>
       f[8] * 256 + f[9] = ToUint16(Checksum(m, f))

\* C25: a configuring call stores its arguments; every other call leaves
\* the feedback flag, the module type and the timeout as the last
\* configuring call left them, gives every frame it writes the feedback
\* byte (0 or 1) of that flag and the length and checksum of that module
\* type, and hands that timeout to the stream before it reads
C25_ConfigInForce ==
  [][/\ lastOp' = "begin" =>
          /\ _threshold' = args'[1]
          /\ _moduleType' = args'[2]
          /\ _ack' = (args'[3] = 1)
     /\ lastOp' = "setModel" => _moduleType' = args'[1]
     /\ lastOp' = "setTimeout" => _threshold' = args'[1]
     /\ lastOp' = "setFeedback" => _ack' = (args'[1] = 1)
     /\ lastOp' \notin ConfigCalls =>
          /\ UNCHANGED <<_threshold, _ack, _moduleType>>
          /\ \A i \in 1 .. Len(Written(io')) :
               FrameFollows(Written(io')[i].bytes, _ack, _moduleType)
          /\ \A i \in 1 .. Len(EventsOf(io', "setTimeout")) :
               EventsOf(io', "setTimeout")[i].ms = _threshold
          /\ Len(EventsOf(io', "readBytes")) = Len(EventsOf(io', "setTimeout"))]_vars

\* the third call of a session, a query, has written a 10-byte frame that
\* asks for feedback and has read under the timeout of 350 ms
C25_Witness ==
  /\ lastOp = "getVolume"
  /\ calls = 3
  /\ _ack
  /\ _moduleType = DFPLAYER_FN_X10P
  /\ _threshold = 350
  /\ Len(Written(io)) = 1
  /\ FrameFollows(Written(io)[1].bytes, TRUE, DFPLAYER_FN_X10P)
  /\ Len(EventsOf(io, "setTimeout")) = 1
  /\ EventsOf(io, "setTimeout")[1].ms = 350

----------------------------------------------------------------------------
(* C26: the delay after the write                                          *)

\* C26: for DFPLAYER_HW_247A _sendData writes the frame and then delays for
\* _threshold milliseconds before it returns; for every other module type
\* it writes the frame and returns
C26_DelayOnlyForHW247A ==
  lastOp = "_sendData" =>
    /\ Len(io) = (IF _moduleType = DFPLAYER_HW_247A THEN 2 ELSE 1)
    /\ io[1].kind = "write"
    /\ _moduleType = DFPLAYER_HW_247A =>
         /\ io[2].kind = "delay"
         /\ io[2].ms = _threshold

\* _sendData has returned for DFPLAYER_HW_247A under a timeout of 100 ms
\* after the write of ten bytes and a delay of 100 ms
C26_Witness ==
  /\ lastOp = "_sendData"
  /\ _moduleType = DFPLAYER_HW_247A
  /\ _threshold = 100
  /\ Len(io) = 2
  /\ Len(io[1].bytes) = 10
  /\ io[2] = Ev("delay", <<>>, 100)

----------------------------------------------------------------------------
(* C27: the folder numbers sent                                            *)

\* C27: every frame playFolder, repeatFolder and getTotalTracksFolder write
\* carries a folder number in 1..99, and every frame
\* playAdvertFolder(folder, track) writes a folder number in 1..9; the track
\* sent with a folder is in 1..255
C27_FolderInRange ==
  \A i \in 1 .. Len(Written(io)) :
    LET f == Written(io)[i].bytes
    IN  /\ lastOp = "playFolder" => f[6] \in 1 .. 99 /\ f[7] \in 1 .. 255
        /\ lastOp = "repeatFolder" => f[7] \in 1 .. 99
        /\ lastOp = "getTotalTracksFolder" => f[7] \in 1 .. 99
        /\ lastOp = "playAdvertFolderN" => f[6] \in 1 .. 9 /\ f[7] \in 1 .. 255

----------------------------------------------------------------------------
(* C28: a reply that arrives in time                                       *)

\* the bytes f that arrived are a complete, well-formed reply to the query
\* the last call wrote
ReplyToQuery(f) ==
  /\ Len(f) = DFPLAYER_UART_FRAME_SIZE
  /\ FrameValid(f)
  /\ f[4] = Written(io)[1].bytes[4]

\* C28: when a complete, well-formed reply with the command byte of the
\* query arrives at any moment after the request frame is written and
\* before the timeout of the read expires, _getResponse returns the value
\* of that reply, for every module type
C28_TimelyReplyReturned ==
  lastOp \in QueryCalls =>
    \A i \in (Pos("write") + 1) .. Len(io) :
      (io[i].kind = "arrived" /\ ReplyToQuery(io[i].bytes))
        => resp = io[i].bytes[6] * 256 + io[i].bytes[7]

----------------------------------------------------------------------------
(* C29: the queries that return uint8_t                                    *)

\* the queries declared uint8_t and those declared uint16_t
ByteQueries ==
  {"getVolume", "getEQ", "getPlayMode", "getVersion", "getTotalTracksFolder",
   "getTotalFolders"}
WordQueries == NumericQueries \ ByteQueries

\* the last call read a well-formed reply with the command byte it sent
MatchingReply ==
  /\ readOk = "true"
  /\ Received[4] = Sent[4]

\* C29: on a well-formed matching reply with the data bytes DH, DL a query
\* declared uint8_t returns DL, the 16-bit value modulo 256, so that a value
\* like 0x0100 is returned as 0; a query declared uint16_t returns
\* DH * 256 + DL
C29_ByteQueriesTruncate ==
  /\ (lastOp \in ByteQueries /\ MatchingReply)
       => ret = (Received[6] * 256 + Received[7]) % 256
  /\ (lastOp \in WordQueries /\ MatchingReply)
       => ret = Received[6] * 256 + Received[7]

\* getVolume has returned 0 for the matching reply
\* 7E FF 06 43 00 01 00 FF C2 EF
C29_Witness ==
  /\ lastOp = "getVolume"
  /\ MatchingReply
  /\ Received[6] = 1
  /\ Received[7] = 0
  /\ resp = 256
  /\ ret = 0

----------------------------------------------------------------------------
(* C30: the status right after a call that sent or read nothing new        *)

\* this step is a call of getCommandStatus right after a playback or
\* control method
StatusAfterControl ==
  lastOp \in ControlCalls /\ lastOp' = "getCommandStatus"

\* this step is a call of getCommandStatus right after a query whose
\* readBytes obtained no byte
StatusAfterSilentQuery ==
  /\ lastOp \in QueryCalls
  /\ Received = <<>>
  /\ lastOp' = "getCommandStatus"

----------------------------------------------------------------------------
(* C31: the status after a reply that _readData rejected                   *)

\* this step is a call of getCommandStatus right after a query whose
\* _readData returned false: fewer than 10 bytes, or a wrong start,
\* version, length or end byte
StatusAfterRejectedReply ==
  /\ lastOp \in QueryCalls
  /\ readOk = "false"
  /\ lastOp' = "getCommandStatus"

\* C31: right after a query whose reply was incomplete or had a wrong
\* start, version, length or end byte, getCommandStatus returns 0x00 and
\* never an error value or OK code taken from the rejected bytes
C31_NoStatusFromRejectedReply ==
  [][StatusAfterRejectedReply => ret' = 0]_vars

----------------------------------------------------------------------------
(* C32: an acknowledgement in front of the reply                           *)

\* with feedback on, the module answered the query that returned last with
\* a well-formed frame with command byte 0x41 followed by a complete,
\* well-formed reply to the query
AckThenReply ==
  /\ lastOp \in QueryCalls
  /\ _ack
  /\ Len(ArrivedAfterFlush) = 2 * DFPLAYER_UART_FRAME_SIZE
  /\ FrameValid(Take(ArrivedAfterFlush, DFPLAYER_UART_FRAME_SIZE))
  /\ ArrivedAfterFlush[4] = 65
  /\ ReplyToQuery(Drop(ArrivedAfterFlush, DFPLAYER_UART_FRAME_SIZE))

\* what a query returns when _getResponse returns 0
FailureResult ==
  IF lastOp = "getStatus"
  THEN (IF _moduleType = DFPLAYER_HW_247A THEN 0 ELSE 4)
  ELSE 0

\* the query read the acknowledgement only, returned its failure result and
\* left the reply unread
ReadAckOnly ==
  /\ Received = Take(ArrivedAfterFlush, DFPLAYER_UART_FRAME_SIZE)
  /\ resp = 0
  /\ ret = FailureResult
  /\ rxFifo = Drop(ArrivedAfterFlush, DFPLAYER_UART_FRAME_SIZE)

\* C32: with feedback on, a query that the module answers with an
\* acknowledgement (byte 3 = 0x41) followed by the reply reads the first 10
\* bytes only and returns its failure result (0; for getStatus 4, or 0 for
\* DFPLAYER_HW_247A); a getCommandStatus that follows returns 0x0B; and a
\* query that follows drops the unread reply in its flush and reads only
\* what arrives after it
C32_AckHidesReply ==
  [][/\ AckThenReply' => ReadAckOnly'
     /\ (AckThenReply /\ lastOp' = "getCommandStatus") => ret' = 11
     /\ (AckThenReply /\ lastOp' \in QueryCalls) =>
          /\ Dropped' = rxFifo
          /\ Received' = Take(ArrivedAfterFlush',
                              ReadCount(ArrivedAfterFlush', DFPLAYER_UART_FRAME_SIZE))]_vars

\* the second getVolume of a session with feedback on has dropped the
\* reply 7E FF 06 43 00 02 01 FF C2 EF that the first left unread behind an
\* acknowledgement, has received nothing and has returned 0
C32_Witness ==
  /\ lastOp = "getVolume"
  /\ _ack
  /\ calls = 3
  /\ Dropped = RxFrame(DFPLAYER_GET_VOL, 0, 2, 1, <<255, 194>>)
  /\ Received = <<>>
  /\ ret = 0

====
